---------------------------- MODULE Spec2Model ----------------------------
(***************************************************************************)
(* Model of vis/server.py: the DataEngine build pipeline (ensure_built,    *)
(* _build_year, build_totals_for_year), the parquet artifacts it keeps     *)
(* under appdata/, and the request handlers that read or build them.       *)
(*                                                                         *)
(* A parquet artifact is modelled by the set of its rows (the ORDER BY of  *)
(* each COPY only fixes the order of the rows on disk).  Counts are        *)
(* naturals.  A COPY ... TO is one atomic step that either publishes the   *)
(* complete file or raises and leaves no file; unlink() and COPY are       *)
(* separate steps, as they are separate statements of the code.            *)
(*                                                                         *)
(* Spec is the program from its start on an empty appdata/, with builds    *)
(* and queries side by side.  QuerySpec is the server answering one query  *)
(* over an appdata/ left by earlier builds, with the tables of the         *)
(* artifacts and the arguments of the query drawn from bounded sets.       *)
(* QueueSpec is the labeling work queue (label_queue.json): start with its *)
(* low-traffic filter over the hourly artifacts, advance, back, set and    *)
(* reset, each handler one step, over hourly files, labels and a request   *)
(* body drawn from bounded sets.                                           *)
(***************************************************************************)
EXTENDS Integers, Sequences, FiniteSets, TLC

\* ------------------------------------------------------------------ bounds

\* Worker threads of the Flask development server (app.run is threaded).
NumThreads == 2
\* COPY statements that may raise (I/O error) in one behaviour.
MaxFailures == 1
\* Requests (POST /api/build, /api/heat, /api/flows, a --build run) in one behaviour.
MaxRequests == 2
\* Times the program is started again (with other flags) after the first start.
MaxRestarts == 1
\* The largest topk a flows query asks for.
MaxTopk == 3
\* The largest flow of an edge of the edge tables queries are checked on.
MaxFlow == 2
\* Start requests of the labeling work queue in a behaviour.
MaxStarts == 2

\* --------------------------------------------------------- configuration

\* YEARS = [2018, 2021, 2024]
YEARS == <<2018, 2021, 2024>>

YearSet == {YEARS[i] : i \in DOMAIN YEARS}

Threads == 1..NumThreads

\* The three artifacts ensure_built asks for, and the fourth one.
Kinds == {"edges_by_o", "edges_by_d", "hourly", "totals"}

\* A file of appdata/: present with its rows, or absent.
File(rows) == [exists |-> TRUE, rows |-> rows]

Absent == [exists |-> FALSE, rows |-> {}]

\* DataEngine._parquet_path: the file of an artifact is addressed by (kind, year).
ParquetPathNoYear(kind, year) == <<kind, YEARS[1]>>

ParquetPath(kind, year) == <<kind, year>>

Paths == Kinds \X YearSet

\* ------------------------------------------------------------- raw input

Row(dt, h, o, d, c) == [date_dt |-> dt, hour |-> h, o_grid |-> o, d_grid |-> d, num_total |-> c]

\* The CSV files under data/: <year>.csv, and <year>.sample_sz.csv for 2018.
\* The first two rows of 2018 are the scenario of the specification.
CsvRows(y, which) ==
    CASE y = 2018 /\ which = "sample" ->
           << Row("20180101", 8, 100, 200, 5),
              Row("20180101", 8, 100, 300, 15) >>
      [] y = 2018 /\ which = "full" ->
           << Row("20180101", 8, 100, 200, 5),
              Row("20180101", 8, 100, 300, 15),
              Row("20180102", 8, 100, 200, 2),
              Row("20180108", 8, 200, 100, 3),
              Row("2018-01-09", 9, 300, 100, 4) >>
      [] y = 2021 ->
           << Row("20210104", 7, 200, 300, 1),
              Row("20210104", 7, 200, 300, 1),
              Row("20210105", 7, 300, 200, 6) >>
      [] OTHER ->
           << Row("20240101", 0, 100, 100, 9) >>

\* Years that have a <year>.sample_sz.csv beside the full CSV.
SampleYears == {2018}

\* TRY_STRPTIME(CASE WHEN LENGTH(date_dt)=8 THEN date_dt ELSE NULL END, '%Y%m%d'):
\* the day of the year of an 8-character %Y%m%d string; ok is FALSE where the
\* SQL yields NULL.
ParseDate(s) ==
    CASE s = "20180101" -> [ok |-> TRUE, day |-> 1]
      [] s = "20180102" -> [ok |-> TRUE, day |-> 2]
      [] s = "20180108" -> [ok |-> TRUE, day |-> 8]
      [] s = "20210104" -> [ok |-> TRUE, day |-> 4]
      [] s = "20210105" -> [ok |-> TRUE, day |-> 5]
      [] s = "20240101" -> [ok |-> TRUE, day |-> 1]
      [] OTHER -> [ok |-> FALSE, day |-> 0]

\* DATE_PART('week', dt) for the dates above (ISO weeks; 2018-01-01, 2021-01-04
\* and 2024-01-01 are Mondays of week 1).
WeekOf(y, day) ==
    IF y = 2021 THEN ((day - 4) \div 7) + 1 ELSE ((day - 1) \div 7) + 1

\* ------------------------------------------------------------ aggregation

RECURSIVE SumField(_, _)
\* SUM(<field>) over a set of records.
SumField(S, f) ==
    IF S = {} THEN 0
    ELSE LET r == CHOOSE x \in S : TRUE
         IN  r[f] + SumField(S \ {r}, f)

RECURSIVE SumCounts(_, _)
\* SUM(num_total) over the rows of a sequence whose index is in I.
SumCounts(rows, I) ==
    IF I = {} THEN 0
    ELSE LET i == CHOOSE x \in I : TRUE
         IN  rows[i].num_total + SumCounts(rows, I \ {i})

\* A plausible slip: one row per raw row, nothing summed.
EdgeAggNoSum(rows) ==
    { [o_grid |-> rows[i].o_grid, d_grid |-> rows[i].d_grid, num_total |-> rows[i].num_total]
        : i \in DOMAIN rows }

\* VIEW edges: SELECT o_grid, d_grid, SUM(num_total) FROM src GROUP BY o_grid, d_grid
EdgeAgg(rows) ==
    LET groups == { <<rows[i].o_grid, rows[i].d_grid>> : i \in DOMAIN rows }
    IN  { [o_grid |-> g[1], d_grid |-> g[2],
           num_total |-> SumCounts(rows, { i \in DOMAIN rows :
                                            rows[i].o_grid = g[1] /\ rows[i].d_grid = g[2] })]
            : g \in groups }

\* A plausible slip: the WHERE dt IS NOT NULL of VIEW t left out.
DatedRowsKeepAll(rows) ==
    { [idx |-> i, dt |-> ParseDate(rows[i].date_dt).day, hour |-> rows[i].hour,
       o_grid |-> rows[i].o_grid, d_grid |-> rows[i].d_grid,
       num_total |-> rows[i].num_total] : i \in DOMAIN rows }

\* VIEW t: the rows whose date parses, with dt in place of the date string.
DatedRows(rows) ==
    LET keep == { i \in DOMAIN rows : ParseDate(rows[i].date_dt).ok }
    IN  { [idx |-> i, dt |-> ParseDate(rows[i].date_dt).day, hour |-> rows[i].hour,
           o_grid |-> rows[i].o_grid, d_grid |-> rows[i].d_grid,
           num_total |-> rows[i].num_total] : i \in keep }

\* VIEW out_by / in_by: GROUP BY grid_id, dt, hour over column `col` of t.
GroupByGridDtHour(t, col) ==
    LET keys == { <<r[col], r.dt, r.hour>> : r \in t }
    IN  { [grid_id |-> k[1], dt |-> k[2], hour |-> k[3],
           val |-> SumField({ r \in t : r[col] = k[1] /\ r.dt = k[2] /\ r.hour = k[3] },
                            "num_total")] : k \in keys }

\* VIEW merged: out_by FULL OUTER JOIN in_by ON grid_id, dt, hour, COALESCE(..., 0).
Merged(out_by, in_by) ==
    LET keys == { <<r.grid_id, r.dt, r.hour>> : r \in out_by \cup in_by }
        Val(S, k) == LET m == { r \in S : <<r.grid_id, r.dt, r.hour>> = k }
                     IN  IF m = {} THEN 0 ELSE (CHOOSE r \in m : TRUE).val
    IN  { [grid_id |-> k[1], dt |-> k[2], hour |-> k[3],
           out_total |-> Val(out_by, k), in_total |-> Val(in_by, k)] : k \in keys }

\* A plausible slip: the hourly total taken from the outbound side only.
HourlyTotalOutOnly(S) == SumField(S, "out_total")

RECURSIVE HourlyTotal(_)
\* SUM(out_total + in_total) AS total, over the merged rows of one group.
HourlyTotal(S) ==
    IF S = {} THEN 0
    ELSE LET r == CHOOSE x \in S : TRUE
         IN  (r.out_total + r.in_total) + HourlyTotal(S \ {r})

\* VIEW hourly: GROUP BY grid_id, week, hour over merged.
HourlyFromMerged(y, merged) ==
    LET keys == { <<r.grid_id, WeekOf(y, r.dt), r.hour>> : r \in merged }
    IN  { LET S == { r \in merged : r.grid_id = k[1] /\ WeekOf(y, r.dt) = k[2] /\ r.hour = k[3] }
          IN  [grid_id |-> k[1], week |-> k[2], hour |-> k[3],
               out_total |-> SumField(S, "out_total"),
               in_total |-> SumField(S, "in_total"),
               total |-> HourlyTotal(S)] : k \in keys }

\* The hourly artifact _build_year writes for year y from the raw rows.
HourlyAgg(y, rows) ==
    LET t == DatedRows(rows)
    IN  HourlyFromMerged(y, Merged(GroupByGridDtHour(t, "o_grid"),
                                  GroupByGridDtHour(t, "d_grid")))

\* COALESCE(gout.out_total, 0) + COALESCE(gin.in_total, 0) AS total
GridTotal(out_t, in_t) == out_t + in_t

\* VIEW gt: gout FULL OUTER JOIN gin ON grid_id, from a by-origin and a
\* by-destination edge table.
TotalsFrom(eo, ed) ==
    LET grids == { r.o_grid : r \in eo } \cup { r.d_grid : r \in ed }
    IN  { LET out_t == SumField({ r \in eo : r.o_grid = g }, "num_total")
              in_t  == SumField({ r \in ed : r.d_grid = g }, "num_total")
          IN  [grid_id |-> g, out_total |-> out_t, in_total |-> in_t,
               total |-> GridTotal(out_t, in_t)] : g \in grids }

\* ---------------------------------------------------------------- queries

\* engine.meta_by_id, from grid_metadata.csv: the grids that have coordinates,
\* with their city and area.  Grid 400 appears in flows and has no metadata.
MetaGrids == {100, 200, 300}

Meta(g) ==
    CASE g = 100 -> [city_name |-> "SZ", area_name |-> "NS"]
      [] g = 200 -> [city_name |-> "SZ", area_name |-> "FT"]
      [] OTHER   -> [city_name |-> "GZ", area_name |-> "TH"]

\* The request arguments with the defaults of request.args.get; cov is in
\* hundredths (cov = 75 stands for 0.75).
NoQuery ==
    [grid_id |-> 0, direction |-> "both", topk |-> 100, cov |-> 0, all |-> FALSE,
     metric |-> "total", city_name |-> "", area_name |-> ""]

\* if cov < 0.0: cov = 0.0; if cov > 1.0: cov = 1.0
ClampCov(cov) == IF cov < 0 THEN 0 ELSE IF cov > 100 THEN 100 ELSE cov

\* WHERE o_grid = ? (col = "o_grid") or WHERE d_grid = ? (col = "d_grid").
Incident(E, col, g) == { r \in E : r[col] = g }

\* The sequences that list every row of S exactly once.
Orders(S) ==
    { f \in [1..Cardinality(S) -> S] : \A i, j \in 1..Cardinality(S) : i # j => f[i] # f[j] }

\* ORDER BY num_total DESC: the order of rows with equal num_total is not fixed.
DescOrders(S) ==
    { f \in Orders(S) : \A i, j \in DOMAIN f : i < j => f[i].num_total >= f[j].num_total }

RECURSIVE RunningSum(_, _)
\* SUM(num_total) OVER (ORDER BY num_total DESC ROWS UNBOUNDED PRECEDING) at row i.
RunningSum(w, i) == IF i = 0 THEN 0 ELSE w[i].num_total + RunningSum(w, i - 1)

\* A plausible slip: the rows up to the first one that reaches the share.
CoverageKeptAtLeast(w, cov) ==
    { w[i] : i \in { k \in DOMAIN w : RunningSum(w, k - 1) * 100 < cov * RunningSum(w, Len(w)) } }

\* WHERE cs <= ? * tot, over the rows in window order w.
CoverageKept(w, cov) ==
    { w[i] : i \in { k \in DOMAIN w : RunningSum(w, k) * 100 <= cov * RunningSum(w, Len(w)) } }

\* A plausible slip: the LIMIT left out.
LimitNone(rows, k) == rows

\* LIMIT ?
Limit(rows, k) == SubSeq(rows, 1, IF k < Len(rows) THEN k ELSE Len(rows))

\* The rows the SQL of flows_for_grid can return for one direction from the
\* edge table E.
SelectFlows(E, col, g, topk, cov) ==
    IF cov > 0
    THEN { Limit(o, topk) :
             o \in UNION { DescOrders(CoverageKept(w, cov)) :
                             w \in DescOrders(Incident(E, col, g)) } }
    ELSE { Limit(o, topk) : o \in DescOrders(Incident(E, col, g)) }

\* "enrich with coords": an edge whose partner has no metadata is dropped.
Enrich(rows, col) == SelectSeq(rows, LAMBDA e : e[col] \in MetaGrids)

\* What flows_for_grid returns for year y from result = {"out": ..., "in": ...}.
FlowsAnswer(y, result) ==
    [year |-> y, out_edges |-> Enrich(result.out, "d_grid"),
     in_edges |-> Enrich(result.in, "o_grid")]

\* A plausible slip: every week kept.
EveryWeek(weeks_all) == weeks_all

\* weeks = weeks_all[:1], weeks_all sorted ascending.
FirstWeek(weeks_all) == { w \in weeks_all : \A v \in weeks_all : w <= v }

\* hourly_series_for_grid for one year: the rows of the grid, weeks_all[:1],
\* and three lists of 24 values that start as zeros.
HourlySeries(y, H, g) ==
    LET rows == { r \in H : r.grid_id = g }
        weeks_all == { r.week : r \in rows }
        weeks == FirstWeek(weeks_all)
        Val(f, h) == LET m == { r \in rows : r.week \in weeks /\ r.hour = h }
                     IN  IF m = {} THEN 0 ELSE (CHOOSE r \in m : TRUE)[f]
    IN  [year |-> y,
         out |-> [h \in 0..23 |-> Val("out_total", h)],
         in |-> [h \in 0..23 |-> Val("in_total", h)],
         total |-> [h \in 0..23 |-> Val("total", h)]]

\* The rows of a totals file in the order the COPY wrote them (ORDER BY grid_id).
ByGridId(T) ==
    CHOOSE f \in Orders(T) : \A i, j \in DOMAIN f : i < j => f[i].grid_id <= f[j].grid_id

\* api_heat: the items of the grids that have metadata and pass the filters,
\* with the value of the metric.
HeatItems(T, q) ==
    LET keep(r) == /\ r.grid_id \in MetaGrids
                   /\ (q.city_name # "" => Meta(r.grid_id).city_name = q.city_name)
                   /\ (q.area_name # "" => Meta(r.grid_id).area_name = q.area_name)
        val(r) == IF q.metric = "total" THEN r.total
                  ELSE IF q.metric = "in" THEN r.in_total ELSE r.out_total
        rows == SelectSeq(ByGridId(T), keep)
    IN  [i \in DOMAIN rows |-> [grid_id |-> rows[i].grid_id, v |-> val(rows[i])]]

\* vs = sorted([it["v"] for it in items])
SortedValues(items) ==
    LET n == Len(items)
        p == CHOOSE f \in [1..n -> 1..n] :
                /\ \A i, j \in 1..n : i # j => f[i] # f[j]
                /\ \A i, j \in 1..n : i < j => items[f[i]].v <= items[f[j]].v
    IN  [i \in 1..n |-> items[p[i]].v]

\* A plausible slip: the percentile index rounded up.
Q95IndexCeil(n) == (95 * (n - 1) + 99) \div 100

\* int(math.floor(0.95 * (len(vs) - 1)))
Q95Index(n) == (95 * (n - 1)) \div 100

\* The answer of api_heat.
HeatAnswer(T, q) ==
    LET items == HeatItems(T, q)
        vs == SortedValues(items)
    IN  IF DOMAIN items = {}
        THEN [values |-> << >>, q95 |-> 0, max |-> 0, n |-> 0]
        ELSE [values |-> items,
              q95 |-> IF Len(vs) > 1 THEN vs[Q95Index(Len(vs)) + 1] ELSE vs[1],
              max |-> vs[Len(vs)],
              n |-> Len(items)]

\* ------------------------------------------------------------------ state

VARIABLES
    files,          \* appdata/: path -> file
    csv_present,    \* the years whose data/<year>.csv exists
    csv_malformed,  \* the years whose data/<year>.csv holds a row with a non-numeric count
    mode,           \* "down", "serve" (app.run) or "build" (--build, then exit)
    parquet_only,   \* --parquet-only
    year_paths,     \* engine.year_paths: year -> "full" | "sample"
    year_colmaps,   \* the years engine.year_colmaps has a mapping for
    th,             \* per thread: the request it serves and where it stands
    failures,       \* COPY statements that have raised so far
    requests,       \* requests taken so far
    restarts,       \* starts of the program after the first
    labels,         \* the grid ids that have a row in labels/labels.csv
    queue_json,     \* appdata/label_queue.json
    form,           \* the body the client posts to /api/label_queue/start
    started,        \* the start requests answered so far, with what they computed
    reply           \* the last answer of a handler of the queue

\* The state of the labeling work queue.
label_vars == <<labels, queue_json, form, started, reply>>

vars == <<files, csv_present, csv_malformed, mode, parquet_only, year_paths, year_colmaps, th,
          failures, requests, restarts, label_vars>>

\* An optional value of a JSON body or of Python: {} is None / absent, {v} is v.
None == {}

Some(v) == {v}

Value(opt) == CHOOSE v \in opt : TRUE

\* No appdata/label_queue.json.
NoQueueFile == [exists |-> FALSE, queue |-> << >>, index |-> 0]

\* A start request with an empty body: count 20, no filter, no seed.
NoForm ==
    [count |-> 20, low_value |-> None, filter_year |-> None, city_name |-> "", seed |-> None]

\* The last answer of a queue handler, with the handler's name in op: no
\* handler has answered yet.
NoReply == [op |-> "none", index |-> 0, current |-> None, total |-> 0]

\* The labeling work queue before anything has used it.
NoLabelQueue ==
    /\ labels = {}
    /\ queue_json = NoQueueFile
    /\ form = NoForm
    /\ started = << >>
    /\ reply = NoReply

\* The server hands a request to the first free worker thread.
Accepts(t) ==
    /\ mode = "serve"
    /\ requests < MaxRequests
    /\ th[t].pc = "idle"
    /\ \A u \in Threads : u < t => th[u].pc # "idle"

\* History kept with a build for the properties below: `pre` is the year's
\* artifacts as they were when _build_year / build_totals_for_year was entered,
\* `wrote` the years whose totals the request has written.
NoSnapshot == [k \in Kinds |-> Absent]

\* jsonify({"values": [], "q95": 0, "max": 0, "n": 0})
NoHeat == [values |-> << >>, q95 |-> 0, max |-> 0, n |-> 0]

\* A thread that serves no request.  q holds the arguments of a query, result
\* the rows flows_for_grid has selected, flows / hourly / heat the answer.
Idle ==
    [pc |-> "idle", req |-> "none", years |-> <<>>, todo |-> <<>>, y |-> 0,
     bo |-> FALSE, bd |-> FALSE, bh |-> FALSE, kind |-> "none", caller |-> "none",
     pre |-> NoSnapshot, wrote |-> {}, err |-> "none",
     q |-> NoQuery, result |-> [out |-> << >>, in |-> << >>],
     flows |-> << >>, hourly |-> << >>, heat |-> NoHeat]

Exists(kind, y) == files[ParquetPath(kind, y)].exists

\* The rows the lazy view `src` yields for year y when a COPY scans it.
SrcRows(y) == CsvRows(y, year_paths[y])

\* The text of the rows of data/<year>.csv that hold something else than a
\* number in a numeric column; with such a row read_csv_auto types the column
\* VARCHAR and the casts of _read_csv_sql work on the text.
MalformedRows(y) ==
    IF y \in csv_malformed /\ year_paths[y] = "full"
    THEN << [date_dt |-> "20210106", hour |-> "7", o_grid |-> "200", d_grid |-> "300",
             num_total |-> "x"] >>
    ELSE << >>

\* <column>::BIGINT / ::DOUBLE of a text: ok is FALSE where the cast raises a
\* conversion error.
CastNumber(s) ==
    CASE s = "7" -> [ok |-> TRUE, val |-> 7]
      [] s = "200" -> [ok |-> TRUE, val |-> 200]
      [] s = "300" -> [ok |-> TRUE, val |-> 300]
      [] OTHER -> [ok |-> FALSE, val |-> 0]

\* A COPY of _build_year scans o_grid, d_grid and num_total of every row of
\* the CSV: one text that does not cast makes the statement raise.
CastRaises(y) ==
    \E i \in DOMAIN MalformedRows(y) :
        \E c \in {"o_grid", "d_grid", "num_total"} : ~CastNumber(MalformedRows(y)[i][c]).ok

\* The artifacts of year y as they are now.
Snapshot(y) == [k \in Kinds |-> files[ParquetPath(k, y)]]

\* The order in which _build_year writes the artifacts.
KindOrder == <<"edges_by_o", "edges_by_d", "hourly", "totals">>

Wanted(r, kind) ==
    CASE kind = "edges_by_o" -> r.bo
      [] kind = "edges_by_d" -> r.bd
      [] kind = "hourly" -> r.bh
      [] OTHER -> TRUE

\* The next artifact _build_year writes after position i of KindOrder: the
\* requested ones in order, and totals always.
NextKind(r, i) ==
    LET later == { j \in DOMAIN KindOrder : j > i /\ Wanted(r, KindOrder[j]) }
    IN  KindOrder[CHOOSE j \in later : \A k \in later : j <= k]

KindIndex(kind) == CHOOSE j \in DOMAIN KindOrder : KindOrder[j] = kind

\* ------------------------------------------------------------- the program

Init ==
    /\ files = [p \in Paths |-> Absent]
    /\ csv_present \in {YearSet, YearSet \ {YEARS[1]}}
    /\ csv_malformed \in {{}, {YEARS[2]}}
    /\ mode = "down"
    /\ parquet_only = FALSE
    /\ year_paths = [y \in YearSet |-> "full"]
    /\ year_colmaps = {}
    /\ th = [t \in Threads |-> Idle]
    /\ failures = 0
    /\ requests = 0
    /\ restarts = 0
    /\ NoLabelQueue

\* main() / create_app(): DataEngine.__init__ (with require_csv a missing CSV
\* raises and the program does not come up), the --use-sample override, and
\* then either ensure_built(YEARS) and exit (--build) or app.run.
Start(po, us, build) ==
    /\ \/ /\ mode = "down"
          /\ restarts' = restarts
       \/ /\ mode # "down"
          /\ restarts < MaxRestarts
          /\ \A t \in Threads : th[t].pc = "idle"
          /\ restarts' = restarts + 1
    /\ build => requests < MaxRequests
    /\ requests' = IF build THEN requests + 1 ELSE requests
    /\ ~(po /\ us)
    /\ po \/ csv_present = YearSet
    /\ parquet_only' = po
    /\ year_colmaps' = csv_present \cup (IF us /\ ~po THEN SampleYears ELSE {})
    /\ year_paths' = [y \in YearSet |->
                        IF us /\ ~po /\ y \in SampleYears THEN "sample" ELSE "full"]
    /\ mode' = IF build THEN "build" ELSE "serve"
    /\ th' = IF build
             THEN [th EXCEPT ![1] = [Idle EXCEPT !.pc = "ensure", !.req = "build",
                                                 !.years = YEARS, !.todo = YEARS]]
             ELSE th
    /\ UNCHANGED <<files, csv_present, csv_malformed, label_vars, failures>>

\* The year lists POST /api/build is called with; the --build run takes YEARS.
BuildRequests == {<<YEARS[1]>>, <<YEARS[2]>>}

\* The years /api/heat and /api/flows are asked for.
QueryYears == {YEARS[1]}

\* The arguments /api/flows, /api/hourly and /api/heat are called with while
\* builds run.
ServeFlowQueries ==
    { [NoQuery EXCEPT !.grid_id = 100, !.topk = 1, !.all = a] : a \in BOOLEAN }

ServeHourlyQueries == { [NoQuery EXCEPT !.grid_id = 100] }

ServeHeatQueries == { NoQuery }

\* api_build: refused in parquet-only mode, else ensure_built(ys).
ApiBuild(t, ys) ==
    /\ Accepts(t)
    /\ requests' = requests + 1
    /\ th' = [th EXCEPT ![t] =
                IF parquet_only
                THEN [Idle EXCEPT !.pc = "done", !.req = "build", !.years = ys,
                                  !.err = "disabled"]
                ELSE [Idle EXCEPT !.pc = "ensure", !.req = "build", !.years = ys,
                                  !.todo = ys]]
    /\ UNCHANGED <<files, csv_present, csv_malformed, label_vars, mode, parquet_only, year_paths,
                   year_colmaps, failures, restarts>>

\* The call _build_year(y, build_edges_o, build_edges_d, build_hourly) up to its
\* first unlink: duckdb.connect, then _read_csv_sql, where year_colmaps[y]
\* raises KeyError for a year without a CSV, before anything is touched.
BuildYearCall(r, y, o, d, h, caller) ==
    LET c == [r EXCEPT !.y = y, !.bo = o, !.bd = d, !.bh = h, !.caller = caller,
                       !.pre = Snapshot(y)]
    IN  IF y \in year_colmaps
        THEN [c EXCEPT !.pc = "unlink", !.kind = NextKind(c, 0)]
        ELSE [c EXCEPT !.pc = "failed", !.err = "missing_source"]

\* ensure_built: one turn of `for y in years`; _build_year is called with the
\* flags of the artifacts that do not exist.
EnsureBuilt(t) ==
    /\ th[t].pc = "ensure"
    /\ LET r == th[t]
       IN  IF r.todo = <<>>
           THEN th' = [th EXCEPT ![t].pc = "done"]
           ELSE LET y == Head(r.todo)
                    need_edges_o == ~Exists("edges_by_o", y)
                    need_edges_d == ~Exists("edges_by_d", y)
                    need_hourly  == ~Exists("hourly", y)
                IN  IF need_edges_o \/ need_edges_d \/ need_hourly
                    THEN th' = [th EXCEPT ![t] =
                                  BuildYearCall(r, y, need_edges_o, need_edges_d,
                                                need_hourly, "ensure")]
                    ELSE th' = [th EXCEPT ![t].todo = Tail(r.todo)]
    /\ UNCHANGED <<files, csv_present, csv_malformed, label_vars, mode, parquet_only, year_paths,
                   year_colmaps, failures, requests, restarts>>

\* path.unlink(missing_ok=True) before each COPY of _build_year.
Unlink(t) ==
    /\ th[t].pc = "unlink"
    /\ files' = [files EXCEPT ![ParquetPath(th[t].kind, th[t].y)] = Absent]
    /\ th' = [th EXCEPT ![t].pc = "copy"]
    /\ UNCHANGED <<csv_present, csv_malformed, label_vars, mode, parquet_only, year_paths,
                   year_colmaps, failures, requests, restarts>>

\* What the COPY of _build_year writes for an artifact of year y: the views are
\* lazy, so each COPY scans the CSV again; totals come from the view over the
\* raw edges, not from the published edge files.
BuiltRows(kind, y) ==
    CASE kind = "edges_by_o" -> EdgeAgg(SrcRows(y))
      [] kind = "edges_by_d" -> EdgeAgg(SrcRows(y))
      [] kind = "hourly" -> HourlyAgg(y, SrcRows(y))
      [] OTHER -> TotalsFrom(EdgeAgg(SrcRows(y)), EdgeAgg(SrcRows(y)))

\* The answer of api_flows for year=all once the loop has ended.
AllYearsErrorNever(data) == "none"

AllYearsError(data) == IF data = << >> THEN "no_indexes" ELSE "none"

\* A plausible slip: the exists() test of api_hourly left out.
HourlyAvailableAlways(y) == TRUE

\* engine._parquet_path("hourly", y).exists()
HourlyAvailable(y) == Exists("hourly", y)

\* Where _build_year returns to: the loop of ensure_built, or
\* build_totals_for_year, which goes on to write totals from the edge files.
AfterBuildYear(r) ==
    IF r.caller = "ensure"
    THEN [r EXCEPT !.pc = "ensure", !.todo = Tail(r.todo), !.kind = "none",
                   !.wrote = r.wrote \cup {r.y}, !.pre = NoSnapshot]
    ELSE [r EXCEPT !.pc = "bt_unlink", !.kind = "none", !.wrote = r.wrote \cup {r.y}]

\* con.execute("COPY (...) TO path"): publishes the artifact and goes on, or
\* raises the conversion error of a cast, which nothing catches.
Copy(t) ==
    /\ th[t].pc = "copy"
    /\ LET r == th[t]
       IN  IF CastRaises(r.y)
           THEN /\ files' = files
                /\ th' = [th EXCEPT ![t].pc = "failed", ![t].err = "conversion"]
           ELSE /\ files' = [files EXCEPT ![ParquetPath(r.kind, r.y)] =
                               File(BuiltRows(r.kind, r.y))]
                /\ th' = [th EXCEPT ![t] =
                             IF r.kind = "totals"
                             THEN AfterBuildYear(r)
                             ELSE [r EXCEPT !.pc = "unlink",
                                            !.kind = NextKind(r, KindIndex(r.kind))]]
    /\ UNCHANGED <<csv_present, csv_malformed, label_vars, mode, parquet_only, year_paths,
                   year_colmaps, failures, requests, restarts>>

\* con.execute("COPY (...) TO path") raises (I/O error): nothing in
\* _build_year, ensure_built or api_build catches it.
CopyFails(t) ==
    /\ th[t].pc = "copy"
    /\ failures < MaxFailures
    /\ failures' = failures + 1
    /\ th' = [th EXCEPT ![t].pc = "failed", ![t].err = "io"]
    /\ UNCHANGED <<files, csv_present, csv_malformed, label_vars, mode, parquet_only, year_paths,
                   year_colmaps, requests, restarts>>

\* A plausible slip: api_heat reads the totals file without building it.
ApiHeatNoBuild(t, y, q) ==
    /\ Accepts(t)
    /\ requests' = requests + 1
    /\ th' = [th EXCEPT ![t] =
                [Idle EXCEPT !.pc = "heat_read", !.req = "heat", !.years = <<y>>,
                             !.y = y, !.q = q]]
    /\ UNCHANGED <<files, csv_present, csv_malformed, label_vars, mode, parquet_only, year_paths,
                   year_colmaps, failures, restarts>>

\* api_heat up to the read: totals are built on the fly when the file is missing.
ApiHeat(t, y, q) ==
    /\ Accepts(t)
    /\ requests' = requests + 1
    /\ th' = [th EXCEPT ![t] =
                [Idle EXCEPT !.pc = IF Exists("totals", y) THEN "heat_read" ELSE "bt_check",
                             !.req = "heat", !.years = <<y>>, !.y = y, !.q = q]]
    /\ UNCHANGED <<files, csv_present, csv_malformed, label_vars, mode, parquet_only, year_paths,
                   year_colmaps, failures, restarts>>

\* A plausible slip: the fallback to _build_year asks for the hourly file too.
BuildTotalsCheckWithHourly(t) ==
    /\ th[t].pc = "bt_check"
    /\ LET r == th[t]
           no_out == ~Exists("edges_by_o", r.y)
           no_in  == ~Exists("edges_by_d", r.y)
       IN  IF no_out \/ no_in
           THEN th' = [th EXCEPT ![t] =
                         BuildYearCall(r, r.y, no_out, no_in, TRUE, "totals")]
           ELSE th' = [th EXCEPT ![t].pc = "bt_unlink", ![t].pre = Snapshot(r.y)]
    /\ UNCHANGED <<files, csv_present, csv_malformed, label_vars, mode, parquet_only, year_paths,
                   year_colmaps, failures, requests, restarts>>

\* build_totals_for_year: falls back to _build_year for the edge files that
\* do not exist.
BuildTotalsCheck(t) ==
    /\ th[t].pc = "bt_check"
    /\ LET r == th[t]
           no_out == ~Exists("edges_by_o", r.y)
           no_in  == ~Exists("edges_by_d", r.y)
       IN  IF no_out \/ no_in
           THEN th' = [th EXCEPT ![t] =
                         BuildYearCall(r, r.y, no_out, no_in, FALSE, "totals")]
           ELSE th' = [th EXCEPT ![t].pc = "bt_unlink", ![t].pre = Snapshot(r.y)]
    /\ UNCHANGED <<files, csv_present, csv_malformed, label_vars, mode, parquet_only, year_paths,
                   year_colmaps, failures, requests, restarts>>

\* build_totals_for_year: totals_p.unlink(missing_ok=True)
BuildTotalsUnlink(t) ==
    /\ th[t].pc = "bt_unlink"
    /\ files' = [files EXCEPT ![ParquetPath("totals", th[t].y)] = Absent]
    /\ th' = [th EXCEPT ![t].pc = "bt_copy"]
    /\ UNCHANGED <<csv_present, csv_malformed, label_vars, mode, parquet_only, year_paths,
                   year_colmaps, failures, requests, restarts>>

\* build_totals_for_year: the COPY of gt, which reads the two edge files now;
\* read_parquet of a file that is gone raises.
BuildTotalsCopy(t) ==
    /\ th[t].pc = "bt_copy"
    /\ LET r == th[t]
       IN  IF Exists("edges_by_o", r.y) /\ Exists("edges_by_d", r.y)
           THEN /\ files' = [files EXCEPT ![ParquetPath("totals", r.y)] =
                               File(TotalsFrom(files[ParquetPath("edges_by_o", r.y)].rows,
                                               files[ParquetPath("edges_by_d", r.y)].rows))]
                /\ th' = [th EXCEPT ![t].pc = "heat_read", ![t].wrote = r.wrote \cup {r.y}]
           ELSE /\ files' = files
                /\ th' = [th EXCEPT ![t].pc = "failed", ![t].err = "io"]
    /\ UNCHANGED <<csv_present, csv_malformed, label_vars, mode, parquet_only, year_paths,
                   year_colmaps, failures, requests, restarts>>

\* build_totals_for_year: the COPY raises (I/O error); api_heat answers 500.
BuildTotalsCopyFails(t) ==
    /\ th[t].pc = "bt_copy"
    /\ failures < MaxFailures
    /\ failures' = failures + 1
    /\ th' = [th EXCEPT ![t].pc = "failed", ![t].err = "io"]
    /\ UNCHANGED <<files, csv_present, csv_malformed, label_vars, mode, parquet_only, year_paths,
                   year_colmaps, requests, restarts>>

\* api_heat: read_parquet of the totals file, then the items, q95 and max; a
\* missing file is an exception nothing catches.
HeatRead(t) ==
    /\ th[t].pc = "heat_read"
    /\ th' = [th EXCEPT ![t] =
                IF Exists("totals", th[t].y)
                THEN [th[t] EXCEPT !.pc = "done",
                                   !.heat = HeatAnswer(files[ParquetPath("totals", th[t].y)].rows,
                                                       th[t].q)]
                ELSE [th[t] EXCEPT !.pc = "failed", !.err = "fault"]]
    /\ UNCHANGED <<files, csv_present, csv_malformed, label_vars, mode, parquet_only, year_paths,
                   year_colmaps, failures, requests, restarts>>

\* A plausible slip: only the by-origin file is looked for.
IndexAvailableByOriginOnly(y) == Exists("edges_by_o", y)

\* Both edge files of year y exist.
IndexAvailable(y) == Exists("edges_by_o", y) /\ Exists("edges_by_d", y)

\* The call flows_for_grid(y, grid_id, direction, topk, cov) up to its first read.
FlowsForGridCall(r, y) ==
    [r EXCEPT !.pc = "flows_read", !.y = y,
              !.kind = IF r.q.direction \in {"out", "both"} THEN "edges_by_o" ELSE "edges_by_d",
              !.result = [out |-> << >>, in |-> << >>]]

\* api_flows: 400 without grid_id; for year=all the loop over YEARS; for one
\* year 409 "index missing" unless both edge files exist.
ApiFlows(t, y, q) ==
    /\ Accepts(t)
    /\ requests' = requests + 1
    /\ LET r == [Idle EXCEPT !.req = "flows", !.q = q]
       IN  th' = [th EXCEPT ![t] =
                    IF q.grid_id = 0
                    THEN [r EXCEPT !.pc = "done", !.err = "grid_id_required"]
                    ELSE IF q.all
                    THEN [r EXCEPT !.pc = "flows_all", !.years = YEARS, !.todo = YEARS]
                    ELSE IF ~IndexAvailable(y)
                    THEN [r EXCEPT !.pc = "done", !.years = <<y>>, !.y = y,
                                   !.err = "index_missing"]
                    ELSE FlowsForGridCall([r EXCEPT !.years = <<y>>], y)]
    /\ UNCHANGED <<files, csv_present, csv_malformed, label_vars, mode, parquet_only, year_paths,
                   year_colmaps, failures, restarts>>

\* api_flows, year=all: one turn of `for y in YEARS`, and after the loop the
\* 404 "no indexes available" when no year had both files (`available` holds
\* the years of `data`, which is th[t].flows here).
FlowsAll(t) ==
    /\ th[t].pc = "flows_all"
    /\ LET r == th[t]
       IN  IF r.todo = << >>
           THEN th' = [th EXCEPT ![t].pc = "done",
                                 ![t].err = AllYearsError(r.flows)]
           ELSE IF IndexAvailable(Head(r.todo))
           THEN th' = [th EXCEPT ![t] =
                         FlowsForGridCall([r EXCEPT !.todo = Tail(r.todo)], Head(r.todo))]
           ELSE th' = [th EXCEPT ![t].todo = Tail(r.todo)]
    /\ UNCHANGED <<files, csv_present, csv_malformed, label_vars, mode, parquet_only, year_paths,
                   year_colmaps, failures, requests, restarts>>

\* flows_for_grid: the query on edges_by_o (direction out, both), then the one
\* on edges_by_d (direction in, both), then the edges with coordinates;
\* read_parquet of a file that is gone raises.
FlowsRead(t) ==
    /\ th[t].pc = "flows_read"
    /\ LET r == th[t]
           col == IF r.kind = "edges_by_o" THEN "o_grid" ELSE "d_grid"
       IN  IF ~Exists(r.kind, r.y)
           THEN th' = [th EXCEPT ![t].pc = "failed", ![t].err = "fault"]
           ELSE \E rows \in SelectFlows(files[ParquetPath(r.kind, r.y)].rows, col,
                                        r.q.grid_id, r.q.topk, ClampCov(r.q.cov)) :
                  LET res == IF r.kind = "edges_by_o"
                             THEN [r.result EXCEPT !.out = rows]
                             ELSE [r.result EXCEPT !.in = rows]
                  IN  IF r.kind = "edges_by_o" /\ r.q.direction = "both"
                      THEN th' = [th EXCEPT ![t].kind = "edges_by_d", ![t].result = res]
                      ELSE th' = [th EXCEPT ![t].pc = IF r.q.all THEN "flows_all" ELSE "done",
                                            ![t].kind = "none",
                                            ![t].result = res,
                                            ![t].flows = Append(r.flows, FlowsAnswer(r.y, res))]
    /\ UNCHANGED <<files, csv_present, csv_malformed, label_vars, mode, parquet_only, year_paths,
                   year_colmaps, failures, requests, restarts>>

\* api_hourly: 400 without grid_id, else the loop over YEARS.
ApiHourly(t, q) ==
    /\ Accepts(t)
    /\ requests' = requests + 1
    /\ LET r == [Idle EXCEPT !.req = "hourly", !.q = q]
       IN  th' = [th EXCEPT ![t] =
                    IF q.grid_id = 0
                    THEN [r EXCEPT !.pc = "done", !.err = "grid_id_required"]
                    ELSE [r EXCEPT !.pc = "hourly_loop", !.years = YEARS, !.todo = YEARS]]
    /\ UNCHANGED <<files, csv_present, csv_malformed, label_vars, mode, parquet_only, year_paths,
                   year_colmaps, failures, restarts>>

\* api_hourly: one turn of `for y in YEARS`: a year without hourly file is
\* passed over; after the loop the mapping is the answer, empty or not.
HourlyLoop(t) ==
    /\ th[t].pc = "hourly_loop"
    /\ LET r == th[t]
       IN  IF r.todo = << >>
           THEN th' = [th EXCEPT ![t].pc = "done"]
           ELSE IF HourlyAvailable(Head(r.todo))
           THEN th' = [th EXCEPT ![t].pc = "hourly_read", ![t].y = Head(r.todo),
                                 ![t].todo = Tail(r.todo)]
           ELSE th' = [th EXCEPT ![t].todo = Tail(r.todo)]
    /\ UNCHANGED <<files, csv_present, csv_malformed, label_vars, mode, parquet_only, year_paths,
                   year_colmaps, failures, requests, restarts>>

\* api_hourly: out[y] = engine.hourly_series_for_grid(grid_id)[y]; the call
\* passes over a year whose file is gone, and [y] then raises KeyError.
HourlyRead(t) ==
    /\ th[t].pc = "hourly_read"
    /\ LET r == th[t]
       IN  IF ~Exists("hourly", r.y)
           THEN th' = [th EXCEPT ![t].pc = "failed", ![t].err = "fault"]
           ELSE th' = [th EXCEPT ![t].pc = "hourly_loop",
                                 ![t].hourly =
                                     Append(r.hourly,
                                            HourlySeries(r.y,
                                                         files[ParquetPath("hourly", r.y)].rows,
                                                         r.q.grid_id))]
    /\ UNCHANGED <<files, csv_present, csv_malformed, label_vars, mode, parquet_only, year_paths,
                   year_colmaps, failures, requests, restarts>>

\* The request is answered (or its exception has left the handler).
Finish(t) ==
    /\ th[t].pc \in {"done", "failed"}
    /\ th' = [th EXCEPT ![t] = Idle]
    /\ UNCHANGED <<files, csv_present, csv_malformed, label_vars, mode, parquet_only, year_paths,
                   year_colmaps, failures, requests, restarts>>

Next ==
    \/ \E po \in BOOLEAN, us \in BOOLEAN, build \in BOOLEAN : Start(po, us, build)
    \/ \E t \in Threads, ys \in BuildRequests : ApiBuild(t, ys)
    \/ \E t \in Threads : EnsureBuilt(t)
    \/ \E t \in Threads : Unlink(t)
    \/ \E t \in Threads : Copy(t)
    \/ \E t \in Threads : CopyFails(t)
    \/ \E t \in Threads, y \in QueryYears, q \in ServeHeatQueries : ApiHeat(t, y, q)
    \/ \E t \in Threads : BuildTotalsCheck(t)
    \/ \E t \in Threads : BuildTotalsUnlink(t)
    \/ \E t \in Threads : BuildTotalsCopy(t)
    \/ \E t \in Threads : BuildTotalsCopyFails(t)
    \/ \E t \in Threads : HeatRead(t)
    \/ \E t \in Threads, y \in QueryYears, q \in ServeFlowQueries : ApiFlows(t, y, q)
    \/ \E t \in Threads : FlowsAll(t)
    \/ \E t \in Threads : FlowsRead(t)
    \/ \E t \in Threads, q \in ServeHourlyQueries : ApiHourly(t, q)
    \/ \E t \in Threads : HourlyLoop(t)
    \/ \E t \in Threads : HourlyRead(t)
    \/ \E t \in Threads : Finish(t)

Spec == Init /\ [][Next]_vars

\* ------------------------------------------- queries over a given appdata/

\* The partners of grid 100 in the edge tables below.
Partners == {200, 300, 400}

\* Edge tables as a build leaves them (one row per pair): grid 100 has an
\* edge to and an edge from every partner, with flows 0..MaxFlow; and the table
\* of the two rows (100,200,5), (100,300,15).
EdgeTables ==
    { { [o_grid |-> 100, d_grid |-> p, num_total |-> c[p]] : p \in Partners }
      \cup { [o_grid |-> 200, d_grid |-> 100, num_total |-> c[300]],
             [o_grid |-> 300, d_grid |-> 100, num_total |-> c[400]],
             [o_grid |-> 400, d_grid |-> 100, num_total |-> c[200]] }
        : c \in [Partners -> 0..MaxFlow] }
    \cup { EdgeAgg(CsvRows(2018, "sample")) }

HRow(g, w, h, o, i) ==
    [grid_id |-> g, week |-> w, hour |-> h, out_total |-> o, in_total |-> i, total |-> o + i]

\* Hourly tables as a build leaves them (one row per grid, week and hour).
HourlyTables ==
    { HourlyAgg(2018, CsvRows(2018, "full")),
      { HRow(100, 3, 0, 4, 0), HRow(100, 3, 23, 1, 2), HRow(100, 3, 24, 7, 7),
        HRow(100, 5, 0, 9, 9), HRow(100, 5, 12, 6, 0), HRow(200, 5, 12, 0, 6) } }

\* The files of a year: all four built from the year's CSV, the same without
\* edges_by_d, or none.
YearFiles(y, have) ==
    [k \in Kinds |->
        IF have = "none" \/ (have = "no_by_d" /\ k = "edges_by_d")
        THEN Absent
        ELSE File(CASE k \in {"edges_by_o", "edges_by_d"} -> EdgeAgg(CsvRows(y, "full"))
                    [] k = "hourly" -> HourlyAgg(y, CsvRows(y, "full"))
                    [] OTHER -> TotalsFrom(EdgeAgg(CsvRows(y, "full")),
                                           EdgeAgg(CsvRows(y, "full"))))]

\* The server runs in parquet-only mode over an appdata/ left by earlier
\* builds; one request is served.  Either the edge table of 2018 is drawn and
\* every file of 2018 and 2021 is there, or the edge table is the one of the
\* two rows and the files that are there are drawn.  The totals of 2018 are
\* there or not: a build that failed before its last COPY leaves them out.
QInit ==
    /\ \E E \in EdgeTables, edges \in BOOLEAN, H \in HourlyTables, hourly \in BOOLEAN,
          totals \in BOOLEAN, h2 \in {"all", "no_by_d", "none"}, h3 \in {"all", "none"} :
          /\ \/ E = EdgeAgg(CsvRows(2018, "sample"))
             \/ edges /\ hourly /\ H = HourlyAgg(2018, CsvRows(2018, "full"))
                /\ h2 = "all" /\ h3 = "none"
          /\ files = [p \in Paths |->
                     CASE p[2] = YEARS[2] -> YearFiles(YEARS[2], h2)[p[1]]
                       [] p[2] = YEARS[3] -> YearFiles(YEARS[3], h3)[p[1]]
                       [] p[1] \in {"edges_by_o", "edges_by_d"} ->
                            IF edges THEN File(E) ELSE Absent
                       [] p[1] = "hourly" -> IF hourly THEN File(H) ELSE Absent
                       [] OTHER -> IF totals THEN File(TotalsFrom(E, E)) ELSE Absent]
    /\ csv_present = {}
    /\ csv_malformed = {}
    /\ mode = "serve"
    /\ parquet_only = TRUE
    /\ year_paths = [y \in YearSet |-> "full"]
    /\ year_colmaps = {}
    /\ th = [t \in Threads |-> Idle]
    /\ failures = 0
    /\ requests = MaxRequests - 1
    /\ restarts = MaxRestarts
    /\ NoLabelQueue

Directions == {"out", "in", "both"}

\* cov, in hundredths.
CovValues == {0, 50, 75, 100}

FlowQueries ==
    { [NoQuery EXCEPT !.grid_id = g, !.direction = d, !.topk = k, !.cov = c, !.all = a] :
        g \in {100, 200}, d \in Directions, k \in 1..MaxTopk, c \in CovValues, a \in BOOLEAN }
    \cup { NoQuery }

HourlyQueries == { [NoQuery EXCEPT !.grid_id = g] : g \in {0, 100, 200, 300} }

HeatQueries ==
    { [NoQuery EXCEPT !.metric = m, !.city_name = c, !.area_name = a] :
        m \in {"total", "in", "out"}, c \in {"", "SZ"}, a \in {"", "FT"} }

QNext ==
    \/ \E t \in Threads, y \in {YEARS[1], YEARS[2]}, q \in FlowQueries : ApiFlows(t, y, q)
    \/ \E t \in Threads : FlowsAll(t)
    \/ \E t \in Threads : FlowsRead(t)
    \/ \E t \in Threads, q \in HourlyQueries : ApiHourly(t, q)
    \/ \E t \in Threads : HourlyLoop(t)
    \/ \E t \in Threads : HourlyRead(t)
    \/ \E t \in Threads, y \in QueryYears, q \in HeatQueries : ApiHeat(t, y, q)
    \/ \E t \in Threads : BuildTotalsCheck(t)
    \/ \E t \in Threads : BuildTotalsUnlink(t)
    \/ \E t \in Threads : BuildTotalsCopy(t)
    \/ \E t \in Threads : HeatRead(t)
    \/ \E t \in Threads : Finish(t)

QuerySpec == QInit /\ [][QNext]_vars

\* ------------------------------------------------ the labeling work queue

\* engine.meta_items: the rows of grid_metadata.csv in file order.
MetaItems == <<100, 200, 300>>

\* _unlabeled_grid_ids(filters): the grids of meta_items that have no label and
\* match the city filter, in file order.
UnlabeledGridIds(city) ==
    SelectSeq(MetaItems, LAMBDA g : g \notin labels /\ (city # "" => Meta(g).city_name = city))

\* low_pct = max(0.0, min(100.0, float(low_pct))), None when not given.
ClampPct(low_pct) ==
    IF low_pct = None THEN None
    ELSE Some(IF Value(low_pct) < 0 THEN 0
              ELSE IF Value(low_pct) > 100 THEN 100 ELSE Value(low_pct))

\* low_value = float(low_value) if given else 0.0, and 0.0 when negative.
ClampLowValue(low_value) ==
    IF low_value = None THEN 0
    ELSE IF Value(low_value) < 0 THEN 0 ELSE Value(low_value)

\* years_try: filter_year first when given, then the other configured years.
YearsTry(filter_year) ==
    IF filter_year = None THEN YEARS
    ELSE <<Value(filter_year)>> \o SelectSeq(YEARS, LAMBDA y : y # Value(filter_year))

\* A plausible slip: the requested year is not looked at first.
ChosenYearConfiguredOrder(filter_year) ==
    LET have == { i \in DOMAIN YEARS : Exists("hourly", YEARS[i]) }
    IN  IF have = {} THEN None
        ELSE Some(YEARS[CHOOSE i \in have : \A j \in have : i <= j])

\* chosen_year: the first year of years_try whose hourly file exists.
ChosenYear(filter_year) ==
    LET years_try == YearsTry(filter_year)
        have == { i \in DOMAIN years_try : Exists("hourly", years_try[i]) }
    IN  IF have = {} THEN None
        ELSE Some(years_try[CHOOSE i \in have : \A j \in have : i <= j])

\* SELECT DISTINCT week FROM read_parquet(p)
Weeks(H) == { r.week : r \in H }

\* A plausible slip: only the earliest week is kept, as hourly_series does.
WeekListFirst(weeks) == { w \in weeks : \A v \in weeks : w <= v }

\* week_list: every week of the file.
WeekList(weeks) == weeks

\* A plausible slip: an hour without a row is left out instead of counted as 0.
LowHourSparse(H, week_list, g, h, low_value) ==
    LET base == { r \in H : r.week \in week_list /\ r.grid_id = g /\ r.hour = h }
    IN  base # {} /\ SumField(base, "total") <= low_value * Cardinality(base)

\* COALESCE(AVG(total), 0) <= low_value for grid g and hour h over the rows of
\* the weeks of week_list: the average of n rows is their sum over n.
LowHour(H, week_list, g, h, low_value) ==
    LET base == { r \in H : r.week \in week_list /\ r.grid_id = g /\ r.hour = h }
    IN  IF base = {} THEN 0 <= low_value
        ELSE SumField(base, "total") <= low_value * Cardinality(base)

\* A plausible slip: a grid is flagged when its low share is at most low_pct.
LowRatioAtMost(low_hours, low_pct) == low_hours * 100 <= low_pct * 24

\* SUM(CASE WHEN avg_total <= ? THEN 1 ELSE 0 END)::DOUBLE / 24.0 >= low_pct / 100:
\* both sides times 2400 (the two quotients are equal only at 0, 1/4, 1/2, 3/4
\* and 1, which doubles hold exactly).
LowRatioAtLeast(low_hours, low_pct) == low_hours * 100 >= low_pct * 24

\* bad_set: the grids of the pool the SQL over full24 returns; empty when the
\* file has no week.
BadSet(H, pool, low_value, low_pct) ==
    IF Weeks(H) = {} THEN {}
    ELSE { g \in { pool[i] : i \in DOMAIN pool } :
             LowRatioAtLeast(
                 Cardinality({ h \in 0..23 :
                                 LowHour(H, WeekList(Weeks(H)), g, h, low_value) }),
                 low_pct) }

\* The seeds the client sends.
Seeds == {1, 7}

\* random.Random(seed).shuffle(x) for a list of n <= 3 items: the positions of
\* the items in the shuffled list (seed 1 gives [2, 1] and [2, 3, 1], seed 7
\* gives [1, 2] and [3, 1, 2]).
ShuffleOrder(seed, n) ==
    CASE n = 0 -> << >>
      [] n = 1 -> <<1>>
      [] n = 2 -> IF seed = 1 THEN <<2, 1>> ELSE <<1, 2>>
      [] OTHER -> IF seed = 1 THEN <<2, 3, 1>> ELSE <<3, 1, 2>>

\* The orders of the items of x.
Orderings(x) ==
    { [i \in DOMAIN x |-> x[f[i]]] :
        f \in { g \in [DOMAIN x -> DOMAIN x] : \A i, j \in DOMAIN x : g[i] = g[j] => i = j } }

\* rnd = random.Random(seed); rnd.shuffle(pool): with a seed the order is a
\* function of the seed and the length; with seed None the generator is seeded
\* from the operating system and any order can come out.
Shuffles(seed, x) ==
    IF seed = None THEN Orderings(x)
    ELSE { [i \in DOMAIN x |-> x[ShuffleOrder(Value(seed), Len(x))[i]]] }

\* pool[: max(1, count)]
Truncate(x, count) ==
    LET k == IF count > 1 THEN count ELSE 1
    IN  SubSeq(x, 1, IF k < Len(x) THEN k ELSE Len(x))

\* api_label_queue_start: the pool of unlabeled grids, the low-traffic filter
\* over the hourly file of the chosen year, the shuffle, the cut, and the
\* write of the queue file with index 0.  The body is `form` with low_pct lp.
ApiLabelQueueStart(lp) ==
    /\ mode = "serve"
    /\ Len(started) < MaxStarts
    /\ LET count == form.count
           low_pct == ClampPct(lp)
           low_value == ClampLowValue(form.low_value)
           pool == UnlabeledGridIds(form.city_name)
           applies == pool # << >> /\ low_pct # None /\ Value(low_pct) > 0
           chosen_year == IF applies THEN ChosenYear(form.filter_year) ELSE None
           H == IF chosen_year = None THEN {}
                ELSE files[ParquetPath("hourly", Value(chosen_year))].rows
           bad_set == IF chosen_year = None THEN {}
                      ELSE BadSet(H, pool, low_value, Value(low_pct))
           kept == SelectSeq(pool, LAMBDA gid : gid \notin bad_set)
       IN  \E shuffled \in Shuffles(form.seed, kept) :
               /\ queue_json' = [exists |-> TRUE, queue |-> Truncate(shuffled, count),
                                 index |-> 0]
               /\ started' = Append(started,
                                [low_pct |-> lp, pool_before |-> pool,
                                 chosen_year |-> chosen_year, weeks |-> Weeks(H),
                                 bad_set |-> bad_set, queue |-> Truncate(shuffled, count)])
    /\ reply' = [NoReply EXCEPT !.op = "start"]
    /\ UNCHANGED <<files, csv_present, csv_malformed, mode, parquet_only, year_paths,
                   year_colmaps, th, failures, requests, restarts, labels, form>>

\* _read_queue: the content of the file, or the empty queue when there is none.
ReadQueue == [queue |-> queue_json.queue, index |-> queue_json.index]

\* _write_queue
WriteQueue(queue, idx) == queue_json' = [exists |-> TRUE, queue |-> queue, index |-> idx]

\* The answer of advance / back / set: cur = queue[idx] if idx < len(queue)
\* else None (Python counts from 0).
PointerReply(op, queue, idx) ==
    [op |-> op, index |-> idx,
     current |-> IF idx < Len(queue) THEN Some(queue[idx + 1]) ELSE None,
     total |-> Len(queue)]

\* A pointer handler has computed idx: it writes the file and answers.
MovePointer(op, queue, idx) ==
    /\ WriteQueue(queue, idx)
    /\ reply' = PointerReply(op, queue, idx)
    /\ UNCHANGED <<files, csv_present, csv_malformed, mode, parquet_only, year_paths,
                   year_colmaps, th, failures, requests, restarts, labels, form, started>>

\* A plausible slip: advance without the test idx < len(queue).
ApiLabelQueueAdvanceAlways ==
    /\ mode = "serve"
    /\ LET q == ReadQueue
       IN  MovePointer("advance", q.queue, q.index + 1)

\* api_label_queue_advance
ApiLabelQueueAdvance ==
    /\ mode = "serve"
    /\ LET q == ReadQueue
       IN  MovePointer("advance", q.queue,
                       IF q.index < Len(q.queue) THEN q.index + 1 ELSE q.index)

\* api_label_queue_back
ApiLabelQueueBack ==
    /\ mode = "serve"
    /\ LET q == ReadQueue
       IN  MovePointer("back", q.queue, IF q.index > 0 THEN q.index - 1 ELSE q.index)

\* if idx < 0: idx = 0; if idx > len(queue): idx = len(queue)
ClampIndex(idx, n) == IF idx < 0 THEN 0 ELSE IF idx > n THEN n ELSE idx

\* api_label_queue_set: to the first place of grid_id in the queue when one is
\* given and found, else to the index of the body, else to the stored index.
ApiLabelQueueSet(index, grid_id) ==
    /\ mode = "serve"
    /\ LET q == ReadQueue
           found == { i \in DOMAIN q.queue : grid_id # None /\ q.queue[i] = Value(grid_id) }
           idx == IF grid_id # None /\ q.queue # << >>
                  THEN IF found # {}
                       THEN (CHOOSE i \in found : \A j \in found : i <= j) - 1
                       ELSE q.index
                  ELSE IF index # None THEN Value(index) ELSE q.index
       IN  MovePointer("set", q.queue, ClampIndex(idx, Len(q.queue)))

\* api_label_queue_reset: queue_json.unlink(missing_ok=True)
ApiLabelQueueReset ==
    /\ mode = "serve"
    /\ queue_json' = NoQueueFile
    /\ reply' = [NoReply EXCEPT !.op = "reset"]
    /\ UNCHANGED <<files, csv_present, csv_malformed, mode, parquet_only, year_paths,
                   year_colmaps, th, failures, requests, restarts, labels, form, started>>

\* Hourly tables as a build leaves them, for the low-traffic filter: grid 100
\* averages 1 at hour 0 over weeks 3 and 5, grid 200 has one row of total 2 in
\* week 3 only, grid 300 is busy in 13 hours; hour 24 is outside 0..23.
LowTrafficTable ==
    { HRow(100, 3, 0, 2, 0), HRow(100, 5, 0, 0, 0), HRow(100, 3, 24, 7, 7),
      HRow(200, 3, 5, 1, 1) }
    \cup { HRow(300, 3, h, 3, 0) : h \in 0..12 }

\* The hourly files of 2018, 2021 and 2024 the queue is started over: absent,
\* built from a CSV without rows, the table above, or built from the year's CSV.
HourlyFiles ==
    LET ta == File(LowTrafficTable)
        te == File(HourlyAgg(2018, << >>))
        tb == File(HourlyAgg(2021, CsvRows(2021, "full")))
        tc == File(HourlyAgg(2024, CsvRows(2024, "full")))
    IN  { <<Absent, Absent, Absent>>, <<ta, Absent, Absent>>, <<ta, tb, Absent>>,
          <<Absent, tb, tc>>, <<te, tb, Absent>>, <<te, Absent, Absent>>,
          <<Absent, Absent, tc>> }

\* The bodies of the start requests.
Forms ==
    [count : {0, 2, 20}, low_value : {None, Some(1)}, filter_year : {None, Some(2021)},
     city_name : {"", "SZ"}, seed : {None} \cup { Some(x) : x \in Seeds }]

\* low_pct of a start request.
LowPcts == {None, Some(0), Some(50), Some(100), Some(150)}

\* The server runs in parquet-only mode over an appdata/ that holds hourly
\* files and no queue file.  Either the hourly files, low_value and filter_year
\* are drawn and every grid is unlabeled, or the labels, the city filter, count
\* and the seed are drawn over the hourly files of 2018 and 2021.
LInit ==
    /\ \E hf \in HourlyFiles, f \in Forms, lab \in {{}, {200}} :
          /\ \/ lab = {} /\ f.city_name = "" /\ f.count = 20 /\ f.seed = Some(1)
             \/ /\ hf[1] = File(LowTrafficTable) /\ hf[2] # Absent
                /\ f.low_value = None /\ f.filter_year = None
          /\ files = [p \in Paths |->
                        IF p[1] = "hourly"
                        THEN hf[CHOOSE i \in DOMAIN YEARS : YEARS[i] = p[2]]
                        ELSE Absent]
          /\ form = f
          /\ labels = lab
    /\ queue_json = NoQueueFile
    /\ started = << >>
    /\ reply = NoReply
    /\ csv_present = {}
    /\ csv_malformed = {}
    /\ mode = "serve"
    /\ parquet_only = TRUE
    /\ year_paths = [y \in YearSet |-> "full"]
    /\ year_colmaps = {}
    /\ th = [t \in Threads |-> Idle]
    /\ failures = 0
    /\ requests = MaxRequests
    /\ restarts = MaxRestarts

\* The index and the grid id a set request carries.
SetIndexes == {None, Some(-1), Some(0), Some(1), Some(5)}

SetGridIds == {None, Some(100), Some(300), Some(999)}

LNext ==
    \/ \E lp \in LowPcts : ApiLabelQueueStart(lp)
    \/ ApiLabelQueueAdvance
    \/ ApiLabelQueueBack
    \/ \E index \in SetIndexes, grid_id \in SetGridIds : ApiLabelQueueSet(index, grid_id)
    \/ ApiLabelQueueReset

QueueSpec == LInit /\ [][LNext]_vars

\* ------------------------------------------------------------- properties

\* A thread inside _build_year or build_totals_for_year.
Building(t) == th[t].pc \in {"unlink", "copy", "bt_unlink", "bt_copy"}

\* The path a thread has unlinked and not yet written again.
Rewriting(t, p) ==
    \/ th[t].pc = "copy" /\ p = ParquetPath(th[t].kind, th[t].y)
    \/ th[t].pc = "bt_copy" /\ p = ParquetPath("totals", th[t].y)

\* C1: when a build of a year fails after it has started, every artifact of
\* that year that was published before the build started still exists with its
\* previous content.
C1_FailedBuildKeepsArtifacts ==
    \A t \in Threads :
        (th[t].pc = "failed" /\ th[t].err \in {"io", "missing_source"}) =>
            \A k \in Kinds :
                th[t].pre[k].exists => files[ParquetPath(k, th[t].y)] = th[t].pre[k]

\* C2: a query that is about to read an artifact it found present (or has just
\* built) finds the complete file there: a build never removes the old version
\* before the new one is published.
C2_ReaderNeverSeesMissing ==
    \A t \in Threads :
        /\ th[t].pc = "heat_read" => Exists("totals", th[t].y)
        /\ th[t].pc = "flows_read" => Exists(th[t].kind, th[t].y)

\* C3: builds of the same year are mutually exclusive: no two threads are in
\* the delete-and-write phase of the same artifact path at the same time.
C3_BuildsMutuallyExclusive ==
    \A t1, t2 \in Threads :
        t1 # t2 => \A p \in Paths : ~(Rewriting(t1, p) /\ Rewriting(t2, p))

\* C4: a step changes an artifact (kind, y) only when it is a step of a thread
\* that is building year y; artifacts of every other year are left unchanged,
\* whether the build goes on to succeed or to fail.
C4_BuildTouchesOnlyItsYear ==
    [][ \A p \in Paths :
          files'[p] # files[p] =>
              \E t \in Threads : Building(t) /\ th[t].y = p[2] /\ th'[t] # th[t] ]_vars

\* C4 witness: a build of 2021 has published an artifact and is about to write
\* the next one while artifacts of 2018 are published.
C4_Witness ==
    \E t \in Threads :
        /\ th[t].y = 2021 /\ th[t].pc = "unlink" /\ th[t].kind = "edges_by_d"
        /\ Exists("edges_by_o", 2021)
        /\ Exists("edges_by_o", 2018) /\ Exists("totals", 2018)

\* C5: when a requested year has no raw source, only that year's build fails:
\* every other requested year that has a raw source is still built by the
\* request.
C5_MissingSourceFailsOnlyThatYear ==
    \A t \in Threads :
        (th[t].pc = "failed" /\ th[t].err = "missing_source" /\ th[t].req = "build") =>
            \A i \in DOMAIN th[t].years :
                LET y == th[t].years[i]
                IN  (y # th[t].y /\ y \in year_colmaps) =>
                        /\ Exists("edges_by_o", y)
                        /\ Exists("edges_by_d", y)
                        /\ Exists("hourly", y)

\* C6: every row of every published hourly artifact and of every published
\* grid-totals artifact satisfies total = out_total + in_total.
C6_TotalIsOutPlusIn ==
    \A y \in YearSet :
        /\ \A r \in files[ParquetPath("hourly", y)].rows : r.total = r.out_total + r.in_total
        /\ \A r \in files[ParquetPath("totals", y)].rows : r.total = r.out_total + r.in_total

\* C6 witness: a published hourly row and a published totals row with both an
\* outbound and an inbound part.
C6_Witness ==
    \E y \in YearSet :
        /\ \E r \in files[ParquetPath("hourly", y)].rows : r.out_total > 0 /\ r.in_total > 0
        /\ \E r \in files[ParquetPath("totals", y)].rows : r.out_total > 0 /\ r.in_total > 0

RECURSIVE PairFlow(_, _, _)
\* The sum of the counts of the raw rows from o to d, row by row.
PairFlow(rows, o, d) ==
    IF rows = <<>> THEN 0
    ELSE (IF Head(rows).o_grid = o /\ Head(rows).d_grid = d THEN Head(rows).num_total ELSE 0)
         + PairFlow(Tail(rows), o, d)

\* R holds exactly one row per (origin, dest) pair of the raw rows, no other
\* row, and each row's flow is the sum of the counts of its pair.
OneRowPerPair(R, rows) ==
    /\ \A i \in DOMAIN rows :
          \E r \in R : r.o_grid = rows[i].o_grid /\ r.d_grid = rows[i].d_grid
    /\ \A r \in R :
          /\ \E i \in DOMAIN rows : r.o_grid = rows[i].o_grid /\ r.d_grid = rows[i].d_grid
          /\ r.num_total = PairFlow(rows, r.o_grid, r.d_grid)
    /\ \A r1, r2 \in R : (r1.o_grid = r2.o_grid /\ r1.d_grid = r2.d_grid) => r1 = r2

\* C7: the edge artifact a build publishes holds exactly one row for every
\* (origin, dest) pair of the year's raw rows and no other row, with flow_sum
\* the sum of the counts of the raw rows of the pair.
C7_EdgesAggregateRaw ==
    [][ \A t \in Threads :
          (/\ th[t].pc = "copy"
           /\ th[t].kind \in {"edges_by_o", "edges_by_d"}
           /\ th'[t].pc = "unlink") =>
              LET f == files'[ParquetPath(th[t].kind, th[t].y)]
              IN  f.exists /\ OneRowPerPair(f.rows, SrcRows(th[t].y)) ]_vars

\* C7 witness: a full build of 2018 from the two sample rows (100,200,5) and
\* (100,300,15) has published both edge artifacts with these two rows.
C7_Witness ==
    \E t \in Threads :
        /\ th[t].y = 2018 /\ th[t].bo /\ th[t].bd /\ th[t].bh
        /\ th[t].pc = "unlink" /\ th[t].kind = "hourly"
        /\ year_paths[2018] = "sample"
        /\ files[ParquetPath("edges_by_o", 2018)] =
              File({[o_grid |-> 100, d_grid |-> 200, num_total |-> 5],
                    [o_grid |-> 100, d_grid |-> 300, num_total |-> 15]})
        /\ files[ParquetPath("edges_by_d", 2018)] = files[ParquetPath("edges_by_o", 2018)]

\* C8: after any sequence of builds none of which has failed, once the builds
\* of a year have ended its published grid-totals artifact equals the aggregate
\* derived from its published edge artifacts.
C8_TotalsDerivedFromEdges ==
    \A y \in YearSet :
        (/\ failures = 0
         /\ \A t \in Threads : th[t].pc # "failed" /\ ~(Building(t) /\ th[t].y = y)
         /\ Exists("totals", y) /\ Exists("edges_by_o", y) /\ Exists("edges_by_d", y)) =>
            files[ParquetPath("totals", y)].rows =
                TotalsFrom(files[ParquetPath("edges_by_o", y)].rows,
                           files[ParquetPath("edges_by_d", y)].rows)

\* C9: after a successful explicit build request, all four artifacts of every
\* requested year exist and the request has (re)built the year's grid totals,
\* also when the three requested artifacts existed before the request.
C9_BuildRequestBuildsTotals ==
    \A t \in Threads :
        (th[t].pc = "done" /\ th[t].req = "build" /\ th[t].err = "none") =>
            \A i \in DOMAIN th[t].years :
                LET y == th[t].years[i]
                IN  /\ \A k \in Kinds : Exists(k, y)
                    /\ y \in th[t].wrote

\* C10: builds are deterministic in the raw input alone: after a successful
\* build request (no build has failed before it) the artifacts of a requested
\* year are the ones a build of the same raw input yields when no artifact is
\* present.
C10_BuildResultFromRawAlone ==
    \A t \in Threads :
        (/\ th[t].pc = "done" /\ th[t].req = "build" /\ th[t].err = "none"
         /\ failures = 0 /\ \A u \in Threads : th[u].pc # "failed") =>
            \A i \in DOMAIN th[t].years :
                \A k \in Kinds :
                    LET p == ParquetPath(k, th[t].years[i])
                    IN  files[p].exists => files[p].rows = BuiltRows(k, th[t].years[i])

\* The raw rows without those whose date does not parse.
ParseableRows(rows) == SelectSeq(rows, LAMBDA r : ParseDate(r.date_dt).ok)

RECURSIVE HourFlow(_, _, _, _, _, _)
\* The sum, row by row, of the counts of the raw rows of year y whose date parses
\* and falls in week w, whose hour is h and whose column `col` is grid g.
HourFlow(rows, y, col, g, w, h) ==
    IF rows = <<>> THEN 0
    ELSE LET r == Head(rows)
             d == ParseDate(r.date_dt)
         IN  (IF d.ok /\ WeekOf(y, d.day) = w /\ r.hour = h /\ r[col] = g
              THEN r.num_total ELSE 0)
             + HourFlow(Tail(rows), y, col, g, w, h)

\* C11: the hourly artifact a build publishes is the one built from the raw
\* rows without the rows whose date does not parse, and each of its rows sums
\* only raw rows whose date parses (so such a row contributes to no hourly
\* row); the edge artifacts a build publishes count every raw row, also one
\* whose date does not parse.
C11_UnparseableDateDropped ==
    [][ \A t \in Threads :
          (th[t].pc = "copy" /\ th'[t].pc = "unlink") =>
              LET y == th[t].y
                  rows == SrcRows(y)
                  f == files'[ParquetPath(th[t].kind, y)]
              IN  /\ th[t].kind = "hourly" =>
                        /\ f.rows = HourlyAgg(y, ParseableRows(rows))
                        /\ \A r \in f.rows :
                              /\ r.out_total = HourFlow(rows, y, "o_grid", r.grid_id, r.week, r.hour)
                              /\ r.in_total = HourFlow(rows, y, "d_grid", r.grid_id, r.week, r.hour)
                              /\ \E i \in DOMAIN rows :
                                    /\ ParseDate(rows[i].date_dt).ok
                                    /\ WeekOf(y, ParseDate(rows[i].date_dt).day) = r.week
                                    /\ rows[i].hour = r.hour
                  /\ th[t].kind \in {"edges_by_o", "edges_by_d"} =>
                        \A i \in DOMAIN rows :
                            ~ParseDate(rows[i].date_dt).ok =>
                                \E e \in f.rows :
                                    /\ e.o_grid = rows[i].o_grid /\ e.d_grid = rows[i].d_grid
                                    /\ e.num_total = PairFlow(rows, e.o_grid, e.d_grid)
                                    /\ e.num_total >= rows[i].num_total ]_vars

\* C11 witness: a build of 2018 from the full CSV, whose last row has the date
\* "2018-01-09", has published the hourly artifact, which has no row for hour 9,
\* and the by-origin edges hold the edge (300, 100) of that row.
C11_Witness ==
    \E t \in Threads :
        /\ th[t].y = 2018 /\ th[t].bo /\ th[t].bh
        /\ th[t].pc = "unlink" /\ th[t].kind = "totals"
        /\ year_paths[2018] = "full"
        /\ \E i \in DOMAIN SrcRows(2018) : ~ParseDate(SrcRows(2018)[i].date_dt).ok
        /\ Exists("hourly", 2018)
        /\ \A r \in files[ParquetPath("hourly", 2018)].rows : r.hour # 9
        /\ [o_grid |-> 300, d_grid |-> 100, num_total |-> 4]
              \in files[ParquetPath("edges_by_o", 2018)].rows

\* C12: a raw row with a non-numeric required field is skipped at row level:
\* the build of its year does not abort on it (it completes and publishes the
\* aggregates of the other rows).
C12_MalformedRowSkipped ==
    \A t \in Threads :
        (th[t].y \in YearSet /\ MalformedRows(th[t].y) # << >>) =>
            ~(th[t].pc = "failed" /\ th[t].err = "conversion")

\* ------------------------------------------------- properties of the queries

\* A flows request that has been answered with data.
AnsweredFlows(t) == th[t].pc = "done" /\ th[t].req = "flows" /\ th[t].err = "none"

\* The direction d ("out" or "in") is asked for by the query q.
Requested(q, d) == q.direction \in {d, "both"}

\* The edges of the published edge artifact of year y that are incident to
\* grid g in direction d.
IncidentEdges(y, g, d) ==
    IF d = "out"
    THEN { r \in files[ParquetPath("edges_by_o", y)].rows : r.o_grid = g }
    ELSE { r \in files[ParquetPath("edges_by_d", y)].rows : r.d_grid = g }

\* The partner of an edge in direction d.
Partner(e, d) == IF d = "out" THEN e.d_grid ELSE e.o_grid

\* The edges of direction d in an answer of flows.
Returned(a, d) == IF d = "out" THEN a.out_edges ELSE a.in_edges

RECURSIVE FlowSum(_)
\* The sum of the flows of a list of edges.
FlowSum(rows) == IF rows = << >> THEN 0 ELSE Head(rows).num_total + FlowSum(Tail(rows))

\* The elements of a list.
Range(seq) == { seq[i] : i \in DOMAIN seq }

\* The list is in descending order of flow and repeats no edge.
Descending(seq) ==
    \A i, j \in DOMAIN seq : i < j => seq[i].num_total >= seq[j].num_total /\ seq[i] # seq[j]

\* C13: with coverage 0, for each requested direction the edges selected from
\* the artifact are min(topk, number of incident edges) incident edges, in
\* descending flow order, each with a flow >= that of every incident edge not
\* selected; the edges returned are the selected ones whose partner has
\* metadata, so at most topk, in the same order; a direction not asked for is
\* empty.
C13_TopkWithoutCoverage ==
    \A t \in Threads :
        (AnsweredFlows(t) /\ ClampCov(th[t].q.cov) = 0) =>
            \A d \in {"out", "in"} :
                /\ \A i \in DOMAIN th[t].flows :
                      LET a == th[t].flows[i]
                          ret == Returned(a, d)
                          inc == IncidentEdges(a.year, th[t].q.grid_id, d)
                      IN  /\ Len(ret) <= th[t].q.topk
                          /\ Descending(ret)
                          /\ Range(ret) \subseteq inc
                          /\ ~Requested(th[t].q, d) => ret = << >>
                          /\ \A e \in Range(ret) : \A r \in inc \ Range(ret) :
                                Partner(r, d) \in MetaGrids => e.num_total >= r.num_total
                /\ ~th[t].q.all =>
                      LET sel == th[t].result[d]
                          ret == Returned(th[t].flows[1], d)
                          inc == IncidentEdges(th[t].y, th[t].q.grid_id, d)
                          k == th[t].q.topk
                      IN  IF ~Requested(th[t].q, d)
                          THEN sel = << >>
                          ELSE /\ Len(sel) = IF k < Cardinality(inc) THEN k ELSE Cardinality(inc)
                               /\ Descending(sel)
                               /\ Range(sel) \subseteq inc
                               /\ \A e \in Range(sel) : \A r \in inc \ Range(sel) :
                                     e.num_total >= r.num_total
                               /\ Range(ret) = { e \in Range(sel) : Partner(e, d) \in MetaGrids }

\* C13 witness: over the edges (100,200,5), (100,300,15) the query grid 100,
\* direction out, topk 1, coverage 0 is answered with the single edge to 300
\* with flow 15.
C13_Witness ==
    \E t \in Threads :
        /\ AnsweredFlows(t) /\ ~th[t].q.all
        /\ th[t].q.grid_id = 100 /\ th[t].q.direction = "out"
        /\ th[t].q.topk = 1 /\ th[t].q.cov = 0
        /\ files[ParquetPath("edges_by_o", th[t].y)].rows =
              {[o_grid |-> 100, d_grid |-> 200, num_total |-> 5],
               [o_grid |-> 100, d_grid |-> 300, num_total |-> 15]}
        /\ th[t].flows = << [year |-> th[t].y,
                             out_edges |-> << [o_grid |-> 100, d_grid |-> 300, num_total |-> 15] >>,
                             in_edges |-> << >>] >>

\* The longest prefix of the list L whose cumulative flow is <= cov/100 * tot.
LongestPrefix(L, cov, tot) ==
    LET ks == { k \in 0..Len(L) : FlowSum(SubSeq(L, 1, k)) * 100 <= cov * tot }
    IN  SubSeq(L, 1, CHOOSE k \in ks : \A j \in ks : j <= k)

\* The first k elements of a list.
Take(L, k) == SubSeq(L, 1, IF k < Len(L) THEN k ELSE Len(L))

\* C14: with coverage c in (0,1], for each requested direction the edges
\* selected are the longest prefix, of a descending-by-flow list of the incident
\* edges, whose cumulative flow is <= c times the total flow of the grid in that
\* direction, cut to at most topk edges; what is returned never has more than
\* topk edges nor a cumulative flow above c times the total.
C14_CoveragePrefix ==
    \A t \in Threads :
        (AnsweredFlows(t) /\ ClampCov(th[t].q.cov) > 0) =>
            \A d \in {"out", "in"} :
                /\ \A i \in DOMAIN th[t].flows :
                      LET a == th[t].flows[i]
                          ret == Returned(a, d)
                          inc == IncidentEdges(a.year, th[t].q.grid_id, d)
                      IN  /\ Len(ret) <= th[t].q.topk
                          /\ Descending(ret)
                          /\ Range(ret) \subseteq inc
                          /\ FlowSum(ret) * 100 <= th[t].q.cov * SumField(inc, "num_total")
                /\ (~th[t].q.all /\ Requested(th[t].q, d)) =>
                      LET sel == th[t].result[d]
                          inc == IncidentEdges(th[t].y, th[t].q.grid_id, d)
                          tot == SumField(inc, "num_total")
                      IN  /\ \E L \in DescOrders(inc) :
                                sel = Take(LongestPrefix(L, th[t].q.cov, tot), th[t].q.topk)
                          /\ Len(sel) <= th[t].q.topk
                          /\ FlowSum(sel) * 100 <= th[t].q.cov * tot

\* C14 witness: a query with coverage 0.75 and topk 3 on a grid with three
\* outgoing edges of positive flow is answered from a prefix of two edges.
C14_Witness ==
    \E t \in Threads :
        /\ AnsweredFlows(t) /\ ~th[t].q.all
        /\ th[t].q.direction = "out" /\ th[t].q.cov = 75 /\ th[t].q.topk = 3
        /\ Cardinality(IncidentEdges(th[t].y, th[t].q.grid_id, "out")) = 3
        /\ \A r \in IncidentEdges(th[t].y, th[t].q.grid_id, "out") : r.num_total > 0
        /\ Len(th[t].result.out) = 2

\* C15: with coverage c in (0,1] and topk at least the number of incident
\* edges, the edges selected for a requested direction account for at least the
\* share c of the grid's total flow in that direction, and there is at least one
\* of them when the grid has an incident edge with positive flow.
C15_CoverageAtLeast ==
    \A t \in Threads :
        (AnsweredFlows(t) /\ ~th[t].q.all /\ ClampCov(th[t].q.cov) > 0) =>
            \A d \in {"out", "in"} :
                LET sel == th[t].result[d]
                    inc == IncidentEdges(th[t].y, th[t].q.grid_id, d)
                IN  (Requested(th[t].q, d) /\ th[t].q.topk >= Cardinality(inc)) =>
                        /\ FlowSum(sel) * 100 >= th[t].q.cov * SumField(inc, "num_total")
                        /\ (\E r \in inc : r.num_total > 0) => sel # << >>

\* The configured years, in order, that satisfy the predicate P.
YearsWith(P(_)) == SelectSeq(YEARS, P)

\* Both edge artifacts of year y are published.
HasBothEdges(y) ==
    files[ParquetPath("edges_by_o", y)].exists /\ files[ParquetPath("edges_by_d", y)].exists

\* The answers a flows query q for the single year y can get from the
\* published edge artifacts.
SingleYearAnswers(y, q) ==
    LET sel(d, kind, col) ==
            IF Requested(q, d)
            THEN SelectFlows(files[ParquetPath(kind, y)].rows, col, q.grid_id, q.topk,
                             ClampCov(q.cov))
            ELSE { << >> }
    IN  { FlowsAnswer(y, [out |-> o, in |-> i]) :
            o \in sel("out", "edges_by_o", "o_grid"), i \in sel("in", "edges_by_d", "d_grid") }

\* C16: a flows query with year = all is answered with one result for exactly
\* the configured years for which both edge artifacts exist, each an answer the
\* single-year query with the same grid, direction, topk and coverage gives;
\* when no configured year has both, the answer is the "no indexes available"
\* error, and only then.
C16_AllYearsAnswer ==
    \A t \in Threads :
        (th[t].req = "flows" /\ th[t].q.all /\ th[t].q.grid_id # 0) =>
            /\ th[t].pc # "failed"
            /\ th[t].pc = "done" =>
                  LET avail == YearsWith(HasBothEdges)
                  IN  /\ Len(th[t].flows) = Len(avail)
                      /\ \A i \in DOMAIN avail :
                            /\ th[t].flows[i].year = avail[i]
                            /\ th[t].flows[i] \in SingleYearAnswers(avail[i], th[t].q)
                      /\ th[t].err = IF avail = << >> THEN "no_indexes" ELSE "none"

\* C16 witness: 2021 has the by-origin artifact only; the query for all years
\* is answered with a result for 2018 and one for 2024.
C16_Witness ==
    \E t \in Threads :
        /\ th[t].pc = "done" /\ th[t].req = "flows" /\ th[t].q.all /\ th[t].err = "none"
        /\ Exists("edges_by_o", 2021) /\ ~Exists("edges_by_d", 2021)
        /\ Len(th[t].flows) = 2
        /\ th[t].flows[1].year = 2018 /\ th[t].flows[2].year = 2024

\* C17: a flows query for a single year that lacks the by-origin or the
\* by-destination edge artifact is answered at once with "index missing" naming
\* that year, with no edge list; it touches no file, and a flows request never
\* is inside a build.
C17_IndexMissing ==
    [][ \A t \in Threads :
          /\ (/\ th[t].pc = "idle" /\ th'[t].req = "flows"
              /\ ~th'[t].q.all /\ th'[t].q.grid_id # 0
              /\ \E k \in {"edges_by_o", "edges_by_d"} :
                    ~files[ParquetPath(k, th'[t].y)].exists) =>
                 /\ th'[t].pc = "done" /\ th'[t].err = "index_missing"
                 /\ th'[t].years = << th'[t].y >>
                 /\ th'[t].flows = << >>
                 /\ files' = files
          /\ th'[t].req = "flows" =>
                 th'[t].pc \in {"flows_read", "flows_all", "done", "failed"} ]_vars

\* C17 witness: while a build of 2018 has published edges_by_o and not yet
\* edges_by_d, a flows query for 2018 has been answered with "index missing".
C17_Witness ==
    \E t \in Threads :
        /\ th[t].req = "flows" /\ th[t].pc = "done" /\ th[t].err = "index_missing"
        /\ th[t].years = << 2018 >>
        /\ Exists("edges_by_o", 2018) /\ ~Exists("edges_by_d", 2018)

\* The field of an hourly row that the list f of the answer is taken from.
SeriesField(f) ==
    CASE f = "out" -> "out_total" [] f = "in" -> "in_total" [] OTHER -> "total"

HasHourly(y) == files[ParquetPath("hourly", y)].exists

\* C19: the hourly query is answered, never with an error, with an entry for
\* exactly the configured years whose hourly artifact exists: a year without
\* one has no entry, and with no hourly artifact at all the answer is the empty
\* mapping.
C19_HourlyYears ==
    \A t \in Threads :
        (th[t].req = "hourly" /\ th[t].q.grid_id # 0) =>
            /\ th[t].pc # "failed" /\ th[t].err = "none"
            /\ th[t].pc = "done" =>
                  LET avail == YearsWith(HasHourly)
                  IN  /\ Len(th[t].hourly) = Len(avail)
                      /\ \A i \in DOMAIN avail : th[t].hourly[i].year = avail[i]

\* C19 witness: only 2021 has an hourly artifact; the answer has the entry of
\* 2021 and none for 2018 and 2024.
C19_Witness ==
    \E t \in Threads :
        /\ th[t].req = "hourly" /\ th[t].pc = "done"
        /\ ~Exists("hourly", 2018) /\ Exists("hourly", 2021) /\ ~Exists("hourly", 2024)
        /\ Len(th[t].hourly) = 1 /\ th[t].hourly[1].year = 2021

\* C20: in a heatmap answer with n >= 1 values, n is the number of returned
\* (grid_id, value) pairs, max is the largest value, and q95 is the value at
\* index floor(0.95 * (n - 1)) of the values in ascending order when n > 1 and
\* the single value when n = 1.
C20_HeatQuantile ==
    \A t \in Threads :
        (th[t].req = "heat" /\ th[t].pc = "done") =>
            LET a == th[t].heat
                n == Len(a.values)
                idx == (95 * (n - 1)) \div 100
                below(v) == Cardinality({ i \in 1..n : a.values[i].v < v })
                upto(v) == Cardinality({ i \in 1..n : a.values[i].v <= v })
            IN  /\ a.n = n
                /\ n >= 1 =>
                      /\ \E i \in 1..n : a.values[i].v = a.max
                      /\ \A i \in 1..n : a.values[i].v <= a.max
                      /\ \E i \in 1..n : a.values[i].v = a.q95
                      /\ below(a.q95) <= idx /\ upto(a.q95) >= idx + 1
                /\ n = 1 => a.q95 = a.values[1].v

\* C20 witness: a heatmap answer over the two values 1 and 2 has q95 = 1,
\* max = 2 and n = 2.
C20_Witness ==
    \E t \in Threads :
        /\ th[t].req = "heat" /\ th[t].pc = "done"
        /\ th[t].heat.n = 2
        /\ { th[t].heat.values[i].v : i \in 1..2 } = {1, 2}
        /\ th[t].heat.q95 = 1 /\ th[t].heat.max = 2

\* The sum of the flows of the rows of E whose column col is grid g.
GridFlow(E, col, g) == SumField({ e \in E : e[col] = g }, "num_total")

\* T holds one row for every grid that is an origin in eo or a destination in
\* ed, with the grid's outbound and inbound sums and their total.
TotalsOfEdges(T, eo, ed) ==
    /\ { r.grid_id : r \in T } = { e.o_grid : e \in eo } \cup { e.d_grid : e \in ed }
    /\ \A r \in T :
          /\ r.out_total = GridFlow(eo, "o_grid", r.grid_id)
          /\ r.in_total = GridFlow(ed, "d_grid", r.grid_id)
          /\ r.total = r.out_total + r.in_total
    /\ \A r1, r2 \in T : r1.grid_id = r2.grid_id => r1 = r2

\* A heatmap query for a year whose two edge artifacts exist.
HeatOverEdges(t) ==
    /\ th[t].req = "heat"
    /\ Exists("edges_by_o", th[t].y)
    /\ Exists("edges_by_d", th[t].y)

\* C21: a heatmap query for a year whose edge artifacts exist does not fail,
\* also when the totals of the year are absent; once it has answered, the
\* totals of the year exist and hold the sums of the two edge artifacts (no raw
\* data is there to read), and the answer is the one computed from these
\* totals.
C21_HeatBuildsTotalsOnDemand ==
    \A t \in Threads :
        HeatOverEdges(t) =>
            /\ th[t].pc # "failed"
            /\ csv_present = {} /\ year_colmaps = {}
            /\ th[t].pc = "done" =>
                  LET f == files[ParquetPath("totals", th[t].y)]
                  IN  /\ f.exists
                      /\ TotalsOfEdges(f.rows,
                                       files[ParquetPath("edges_by_o", th[t].y)].rows,
                                       files[ParquetPath("edges_by_d", th[t].y)].rows)
                      /\ th[t].err = "none"
                      /\ th[t].heat = HeatAnswer(f.rows, th[t].q)

\* C21 witness: a query that found the totals absent has built them and has
\* answered with three values, one of them positive.
C21_Witness ==
    \E t \in Threads :
        /\ HeatOverEdges(t)
        /\ ~th[t].pre["totals"].exists
        /\ th[t].y \in th[t].wrote
        /\ th[t].pc = "done"
        /\ th[t].heat.n = 3
        /\ th[t].heat.max > 0
        /\ Exists("totals", th[t].y)

\* ------------------------------------------- properties of the work queue

\* The hourly rows a start request has read: those of its chosen year.
ChosenRows(s) == files[ParquetPath("hourly", Value(s.chosen_year))].rows

\* The weeks of H that have a row for grid g and hour h.
WeeksWithRow(H, g, h) == { r.week : r \in { x \in H : x.grid_id = g /\ x.hour = h } }

RECURSIVE TotalOverWeeks(_, _, _, _)
\* The sum, over the weeks W, of the total of grid g at hour h.
TotalOverWeeks(H, g, h, W) ==
    IF W = {} THEN 0
    ELSE LET w == CHOOSE x \in W : TRUE
             r == CHOOSE x \in H : x.grid_id = g /\ x.hour = h /\ x.week = w
         IN  r.total + TotalOverWeeks(H, g, h, W \ {w})

\* The average total of grid g at hour h over the weeks that have a row for
\* them, or 0 when there is none, is <= low_value.
AverageIsLow(H, g, h, low_value) ==
    LET W == WeeksWithRow(H, g, h)
    IN  IF W = {} THEN 0 <= low_value
        ELSE TotalOverWeeks(H, g, h, W) <= low_value * Cardinality(W)

\* (number of low hours of grid g among 0..23) / 24 >= low_pct / 100.
FlaggedByRatio(H, g, low_value, low_pct) ==
    Cardinality({ h \in 0..23 : AverageIsLow(H, g, h, low_value) }) * 100 >= low_pct * 24

\* The start requests on which the filter ran over an hourly file.
Filtered(s) == s.chosen_year # None

\* C22: when the low-traffic filter is applied over an hourly file that has at
\* least one week, the flagged grids are exactly the candidates whose share of
\* low hours (average over every week that has a row, 0 without a row, at most
\* low_value) among the 24 hours is at least low_pct / 100.
C22_LowTrafficFlagged ==
    \A i \in DOMAIN started :
        LET s == started[i]
        IN  (Filtered(s) /\ s.weeks # {}) =>
                s.bad_set = { g \in Range(s.pool_before) :
                                FlaggedByRatio(ChosenRows(s), g,
                                               ClampLowValue(form.low_value),
                                               Value(ClampPct(s.low_pct))) }

\* C22 witness: over the table of weeks 3 and 5 with low_value 1 and low_pct
\* 100, grid 100 (average 1 at hour 0 over both weeks) is the one flagged grid
\* of the three candidates.
C22_Witness ==
    \E i \in DOMAIN started :
        /\ Filtered(started[i])
        /\ started[i].weeks = {3, 5}
        /\ started[i].pool_before = <<100, 200, 300>>
        /\ form.low_value = Some(1)
        /\ started[i].low_pct = Some(100)
        /\ started[i].bad_set = {100}

\* The low_pct a start request has worked with, when it gave one.
GivenPct(s) == Value(ClampPct(s.low_pct))

\* C23: with the same candidates, hourly files and low_value, every grid
\* flagged at low_pct = p is also flagged at every low_pct = p' > p.
C23_FlaggedGrowsWithLowPct ==
    \A i, j \in DOMAIN started :
        (/\ started[i].low_pct # None /\ started[j].low_pct # None
         /\ GivenPct(started[i]) < GivenPct(started[j])) =>
            started[i].bad_set \subseteq started[j].bad_set

\* C23 amended: with the same candidates, hourly files and low_value, every
\* grid flagged at low_pct = p' is also flagged at every low_pct = p with
\* 0 < p < p': raising low_pct never adds a grid to the flagged set.
C23_FlaggedShrinksWithLowPct ==
    \A i, j \in DOMAIN started :
        (/\ started[i].low_pct # None /\ started[j].low_pct # None
         /\ 0 < GivenPct(started[i])
         /\ GivenPct(started[i]) < GivenPct(started[j])) =>
            started[j].bad_set \subseteq started[i].bad_set

\* C23 witness: low_pct 50 flags grids 100 and 200, low_pct 100 over the same
\* file and low_value 1 flags grid 100 only.
C23_Witness ==
    /\ Len(started) = 2
    /\ started[1].low_pct = Some(50) /\ started[1].bad_set = {100, 200}
    /\ started[2].low_pct = Some(100) /\ started[2].bad_set = {100}

\* Grid g has no row at all in the hourly rows H.
NoRowOf(H, g) == \A r \in H : r.grid_id # g

\* C24: a candidate that has no row in the hourly file of the chosen year is
\* flagged for every low_value >= 0 and every low_pct in (0, 100], whatever
\* other rows, if any, the file holds.
C24_GridWithoutRowsFlagged ==
    \A i \in DOMAIN started :
        LET s == started[i]
        IN  (Filtered(s) /\ s.low_pct # None /\ GivenPct(s) > 0) =>
                \A g \in Range(s.pool_before) :
                    NoRowOf(ChosenRows(s), g) => g \in s.bad_set

\* C24 amended: such a candidate is flagged when the hourly file of the chosen
\* year holds at least one row; over a file without rows nothing is flagged.
C24_GridWithoutRowsFlaggedIfAnyWeek ==
    \A i \in DOMAIN started :
        LET s == started[i]
        IN  (Filtered(s) /\ s.low_pct # None /\ GivenPct(s) > 0) =>
                IF ChosenRows(s) = {}
                THEN s.bad_set = {}
                ELSE \A g \in Range(s.pool_before) :
                         NoRowOf(ChosenRows(s), g) => g \in s.bad_set

\* C24 witness: the hourly file of 2021 has rows of grids 200 and 300 only and
\* candidate 100 is flagged at low_pct 100.
C24_Witness ==
    \E i \in DOMAIN started :
        /\ started[i].chosen_year = Some(2021)
        /\ ChosenRows(started[i]) # {}
        /\ NoRowOf(ChosenRows(started[i]), 100)
        /\ started[i].low_pct = Some(100)
        /\ 100 \in Range(started[i].pool_before)
        /\ 100 \in started[i].bad_set

\* The configured years that have an hourly file, and the first of them.
YearsWithHourly == { y \in YearSet : files[ParquetPath("hourly", y)].exists }

FirstYearWithHourly ==
    YEARS[CHOOSE i \in DOMAIN YEARS :
            /\ YEARS[i] \in YearsWithHourly
            /\ \A j \in DOMAIN YEARS : YEARS[j] \in YearsWithHourly => i <= j]

\* The length of a queue cut from n grids: at most max(1, count).
QueueLength(n, count) ==
    LET k == IF count > 1 THEN count ELSE 1
    IN  IF n < k THEN n ELSE k

\* C25: the filter works on the hourly file of the requested year when that
\* file exists, otherwise on the one of the first configured year that has
\* one; when no year has one, or low_pct is absent or 0, nothing is flagged and
\* the queue is cut from the whole candidate pool.
C25_FilterYearChoice ==
    \A i \in DOMAIN started :
        LET s == started[i]
        IN  IF s.low_pct = None \/ GivenPct(s) = 0 \/ YearsWithHourly = {}
            THEN /\ s.chosen_year = None
                 /\ s.bad_set = {}
                 /\ Len(s.queue) = QueueLength(Len(s.pool_before), form.count)
                 /\ Range(s.queue) \subseteq Range(s.pool_before)
            ELSE s.pool_before # << >> =>
                    /\ s.chosen_year =
                          IF form.filter_year # None
                             /\ Value(form.filter_year) \in YearsWithHourly
                          THEN form.filter_year
                          ELSE Some(FirstYearWithHourly)
                    /\ s.weeks = { r.week : r \in ChosenRows(s) }

\* C25 witness: 2021 is asked for and its hourly file is used although 2018,
\* the first configured year, has one too; the filter flags a grid.
C25_Witness ==
    \E i \in DOMAIN started :
        /\ form.filter_year = Some(2021)
        /\ started[i].chosen_year = Some(2021)
        /\ 2018 \in YearsWithHourly
        /\ started[i].bad_set # {}

\* C25, second case reached: 2021 is asked for, has no hourly file, and the
\* file of 2018 is used.
C25_FallbackReached ==
    \E i \in DOMAIN started :
        /\ form.filter_year = Some(2021)
        /\ 2021 \notin YearsWithHourly
        /\ started[i].chosen_year = Some(2018)

\* C26: two start requests with the same labels, metadata, filters,
\* low-traffic parameters, hourly files, count and seed (also when no seed is
\* given) produce the same queue in the same order; a queue holds at most
\* max(1, count) distinct grids, none of them labeled or flagged.
C26_QueueDeterministic ==
    /\ \A i, j \in DOMAIN started :
          started[i].low_pct = started[j].low_pct => started[i].queue = started[j].queue
    /\ \A i \in DOMAIN started :
          LET queue == started[i].queue
          IN  /\ Len(queue) <= (IF form.count > 1 THEN form.count ELSE 1)
              /\ \A m, n \in DOMAIN queue : queue[m] = queue[n] => m = n
              /\ \A m \in DOMAIN queue :
                    queue[m] \notin labels /\ queue[m] \notin started[i].bad_set

\* A step of a thread that serves a flows, hourly or heatmap query.
QueryStep(t) == th[t].req \in {"flows", "hourly", "heat"} /\ th'[t] # th[t]

\* C27: queries are pure reads: no step of a flows, hourly or heatmap query
\* creates, replaces or deletes an artifact of any year.
C27_QueriesArePureReads ==
    [][ \A t \in Threads : QueryStep(t) => files' = files ]_vars

\* C27 amended: a flows or hourly query changes no artifact; a heatmap query
\* changes artifacts only inside build_totals_for_year, which it enters when it
\* finds no totals for its year, and then only the totals of that year and the
\* edge artifacts of that year that were missing.
C27_OnlyHeatBuildsTotals ==
    [][ \A t \in Threads :
          QueryStep(t) =>
              \A p \in Paths :
                  files'[p] # files[p] =>
                      /\ th[t].req = "heat"
                      /\ Building(t)
                      /\ p[2] = th[t].y
                      /\ \/ p[1] = "totals"
                         \/ p[1] \in {"edges_by_o", "edges_by_d"} /\ ~th[t].pre[p[1]].exists
      ]_vars

\* C27 witness: a heatmap query that found neither the totals nor the
\* by-destination edges of its year has written both and is about to read.
C27_Witness ==
    \E t \in Threads :
        /\ th[t].req = "heat" /\ th[t].pc = "heat_read"
        /\ ~th[t].pre["totals"].exists /\ ~th[t].pre["edges_by_d"].exists
        /\ th[t].pre["edges_by_o"].exists
        /\ th[t].caller = "totals"
        /\ Exists("totals", th[t].y) /\ Exists("edges_by_d", th[t].y)

\* A heatmap query that found no totals for its year when it arrived: it is
\* inside build_totals_for_year, or has left it.
FoundNoTotals(t) ==
    /\ th[t].req = "heat"
    /\ \/ th[t].pc = "bt_check"
       \/ Building(t)
       \/ th[t].y \in th[t].wrote
       \/ th[t].pc = "failed" /\ th[t].err # "fault"

\* Two threads serve heatmap queries for the same year at the same time, and
\* both found the totals of the year absent.
ConcurrentHeat(t1, t2) ==
    /\ t1 # t2
    /\ FoundNoTotals(t1) /\ FoundNoTotals(t2)
    /\ th[t1].y = th[t2].y

\* C28: of two heatmap queries for the same year that run at the same time
\* while the totals of the year are absent, neither comes to read a totals file that is missing, neither ends in an
\* exception nothing catches, and each answers what a query alone answers: the
\* values of the totals derived from the year's raw rows.
C28_ConcurrentHeatSafe ==
    \A t1, t2 \in Threads :
        ConcurrentHeat(t1, t2) =>
            /\ th[t1].pc = "heat_read" => Exists("totals", th[t1].y)
            /\ th[t1].err # "fault"
            /\ th[t1].pc = "done" =>
                  th[t1].heat = HeatAnswer(BuiltRows("totals", th[t1].y), th[t1].q)

\* C29: whatever builds have run (partial ones, and ones made after the raw
\* source of the year was exchanged), once no build of a year is under way and
\* both its edge artifacts exist, the by-origin and the by-destination artifact
\* hold the same set of (origin, dest, flow_sum) rows.
C29_EdgeCopiesAgree ==
    \A y \in YearSet :
        (/\ Exists("edges_by_o", y) /\ Exists("edges_by_d", y)
         /\ \A t \in Threads : ~(Building(t) /\ th[t].y = y)) =>
            files[ParquetPath("edges_by_o", y)].rows = files[ParquetPath("edges_by_d", y)].rows

\* The grid at the pointer of the queue file: queue[index] (Python counts from
\* 0) when index < length, else none.
GridAtPointer(q) == IF q.index < Len(q.queue) THEN Some(q.queue[q.index + 1]) ELSE None

\* C30: from no queue on, every start, advance, back, set and reset leaves
\* 0 <= index <= length in the queue file; advance at index = length and back
\* at index = 0 leave the pointer where it is, start puts it at 0, and the
\* current grid advance, back and set report is queue[index] exactly when
\* index < length.
C30_PointerWithinQueue ==
    [][ /\ 0 <= queue_json'.index /\ queue_json'.index <= Len(queue_json'.queue)
        /\ (reply'.op = "advance" /\ queue_json.index = Len(queue_json.queue)) =>
              queue_json'.index = queue_json.index
        /\ (reply'.op = "back" /\ queue_json.index = 0) => queue_json'.index = 0
        /\ reply'.op = "start" => queue_json'.index = 0
        /\ reply'.op \in {"advance", "back", "set"} =>
              /\ reply'.index = queue_json'.index
              /\ reply'.total = Len(queue_json'.queue)
              /\ reply'.current = GridAtPointer(queue_json')
      ]_vars

\* C30 witness: advance has reached the end of a queue of two grids and
\* reports no current grid.
C30_Witness ==
    /\ reply.op = "advance"
    /\ Len(queue_json.queue) = 2
    /\ queue_json.index = 2
    /\ reply.current = None

=============================================================================
